---- MODULE Spec2Model ----
(***************************************************************************)
(* Model of the request pipeline of atest-ext-ai: the gRPC service         *)
(* AIExtensionService.GenerateContent (src/src/grpc_server.py), the LLM    *)
(* connectors (src/src/llm/ollama.py, src/src/llm/openai.py) and the       *)
(* dialect manager (src/src/db/dialect_manager.py).                        *)
(*                                                                         *)
(* A Python string is a sequence of atoms.  An atom is one character, or a *)
(* fixed phrase of the source text that no operation of the program looks  *)
(* inside (the template sentences of prompts and messages).                *)
(***************************************************************************)
EXTENDS Integers, Sequences, FiniteSets, TLC

VARIABLES
    connector,      \* the connector installed in the service: "ollama", "openai" or "stub"
    pc,             \* position of the worker: "idle", "connector", "done"
    request,        \* the GenerateContentRequest being served
    messages,       \* the messages handed to llm_connector.generate_content
    path,           \* the branch GenerateContent dispatched to ("none" before dispatch)
    outcome,        \* what generate_content did: returned a value or raised
    calls,          \* invocations of llm_connector.generate_content in this request
    providerCalls,  \* provider round trips (HTTP post / API call) in this request
    sent,           \* what went to the provider in these round trips, in their order
    response,       \* the GenerateContentResponse returned to the transport
    propagated,     \* TRUE when an exception left GenerateContent
    dialect,        \* a DialectManager at work on one statement, outside the service
    built,          \* a PromptBuilder at work on one set of arguments, outside the service
    config,         \* a configuration file, an environment, and what is constructed from them
    pool,           \* the workers of the thread pool, each serving a request of its own
    helper          \* a text given to validate_sql_syntax, and what the function returned

\* the variables of the service, and those of the components used on their own
service == <<connector, pc, request, messages, path, outcome, calls, providerCalls,
             sent, response, propagated>>
library == <<dialect, built, config, pool, helper>>

vars == <<service, library>>

(***************************************************************************)
(* Bounds of the model.                                                    *)
(***************************************************************************)
MaxPromptLen == 2   \* prompts are all strings over PromptChars up to this length
MaxPad == 1         \* blanks put before and after a content type word
MaxClauses == 3     \* a statement has at most this many clauses
MaxPasses == 2      \* adjust_sql_for_dialect is applied to a statement this many times
MaxSchemas == 2     \* the schemas given to the prompt builder are at most this many
MaxExamples == 2    \* the examples given to the prompt builder are at most this many
MaxTables == 2      \* the tables given to the prompt builder are at most this many
MaxHistory == 2     \* the exchanges given to the prompt builder are at most this many
MaxPosts == 2       \* a constructed connector makes at most this many provider requests
MaxWorkers == 2     \* the workers of the pool that serve requests at the same time
MaxPieces == 3      \* a text given to validate_sql_syntax has at most this many pieces

(***************************************************************************)
(* Python str operations.                                                  *)
(***************************************************************************)
Whitespace == {" ", "\t", "\n", "\r", "\f"}

UpperCase == <<"A","B","C","D","E","F","G","H","I","J","K","L","M",
               "N","O","P","Q","R","S","T","U","V","W","X","Y","Z">>
LowerCase == <<"a","b","c","d","e","f","g","h","i","j","k","l","m",
               "n","o","p","q","r","s","t","u","v","w","x","y","z">>

lower_char(c) ==
    IF \E i \in 1..26 : UpperCase[i] = c
    THEN LowerCase[CHOOSE i \in 1..26 : UpperCase[i] = c]
    ELSE c

upper_char(c) ==
    IF \E i \in 1..26 : LowerCase[i] = c
    THEN UpperCase[CHOOSE i \in 1..26 : LowerCase[i] = c]
    ELSE c

\* str.lower()
lower(s) == [i \in 1..Len(s) |-> lower_char(s[i])]

\* str.upper()
upper(s) == [i \in 1..Len(s) |-> upper_char(s[i])]

RECURSIVE lstrip(_)
lstrip(s) ==
    IF s # <<>> /\ Head(s) \in Whitespace THEN lstrip(Tail(s)) ELSE s

RECURSIVE rstrip(_)
rstrip(s) ==
    IF s # <<>> /\ s[Len(s)] \in Whitespace
    THEN rstrip(SubSeq(s, 1, Len(s) - 1))
    ELSE s

\* str.strip(): leading and trailing whitespace removed
strip(s) == rstrip(lstrip(s))

\* sub in s, for two strings
contains(sub, s) ==
    \E i \in 1..(Len(s) - Len(sub) + 1) : SubSeq(s, i, i + Len(sub) - 1) = sub

\* s.split(sep) for a one-character separator: never an empty list
RECURSIVE split(_, _)
split(s, sep) ==
    IF \E i \in 1..Len(s) : s[i] = sep
    THEN LET i == CHOOSE j \in 1..Len(s) : s[j] = sep /\ \A k \in 1..(j - 1) : s[k] # sep
         IN  <<SubSeq(s, 1, i - 1)>> \o split(SubSeq(s, i + 1, Len(s)), sep)
    ELSE <<s>>

\* sep.join(parts)
RECURSIVE join(_, _)
join(sep, parts) ==
    IF parts = <<>> THEN <<>>
    ELSE IF Len(parts) = 1 THEN parts[1]
    ELSE parts[1] \o sep \o join(sep, Tail(parts))

(***************************************************************************)
(* Protobuf map<string, string> fields (request.parameters,                *)
(* request.context): a sequence of <<key, value>> pairs with distinct      *)
(* keys, in iteration order.                                               *)
(***************************************************************************)
map_has(m, k) == \E i \in 1..Len(m) : m[i][1] = k

\* m.get(k, default)
map_get(m, k, default) ==
    IF map_has(m, k) THEN m[CHOOSE i \in 1..Len(m) : m[i][1] = k][2] ELSE default

(***************************************************************************)
(* Python values a connector can return, and exceptions.                   *)
(***************************************************************************)
PyNone == [kind |-> "none", str |-> <<>>, has_content |-> FALSE, content |-> <<>>,
           has_confidence |-> FALSE, confidence |-> 0, has_other |-> FALSE]

PyStr(t) == [PyNone EXCEPT !.kind = "str", !.str = t]

\* a dict; has_other: some key other than content and confidence is present
PyDict(has_content, content, has_confidence, confidence, has_other) ==
    [kind |-> "dict", str |-> <<>>, has_content |-> has_content, content |-> content,
     has_confidence |-> has_confidence, confidence |-> confidence,
     has_other |-> has_other]

\* bool(v)
truthy(v) ==
    CASE v.kind = "none" -> FALSE
      [] v.kind = "str"  -> v.str # <<>>
      [] v.kind = "dict" -> v.has_content \/ v.has_confidence \/ v.has_other

NoException == [type |-> "", message |-> <<>>]
Exception(type, message) == [type |-> type, message |-> message]

\* the result of evaluating a piece of code: a value returned or an exception raised
Return(v) == [raised |-> FALSE, exc |-> NoException, value |-> v]
Raise(e, novalue) == [raised |-> TRUE, exc |-> e, value |-> novalue]

(***************************************************************************)
(* ai_extension_pb2 messages.  An optional message field is a sequence of  *)
(* length 0 (not populated) or 1 (populated).  A float is counted in       *)
(* hundredths.                                                             *)
(***************************************************************************)
INVALID_ARGUMENT == "INVALID_ARGUMENT"
UNSUPPORTED_DATABASE == "UNSUPPORTED_DATABASE"
TRANSLATION_FAILED == "TRANSLATION_FAILED"
INTERNAL_ERROR == "INTERNAL_ERROR"

ErrorCode == {INVALID_ARGUMENT, UNSUPPORTED_DATABASE, TRANSLATION_FAILED, INTERNAL_ERROR}

ErrorResponse(code, message) == [code |-> code, message |-> message]

ContentSuccessResponse(content, explanation, confidenceScore, metadata) ==
    [content |-> content, explanation |-> explanation,
     confidenceScore |-> confidenceScore, metadata |-> metadata]

\* GenerateContentResponse(success=...) / GenerateContentResponse(error=...)
GenerateContentResponse(success, error) == [success |-> success, error |-> error]

NoResponse == GenerateContentResponse(<<>>, <<>>)

error_response(code, message) ==
    GenerateContentResponse(<<>>, <<ErrorResponse(code, message)>>)

success_response(content, explanation, confidenceScore, metadata) ==
    GenerateContentResponse(
        <<ContentSuccessResponse(content, explanation, confidenceScore, metadata)>>, <<>>)

\* response.get('confidence', 0.8): the default, in hundredths
DefaultConfidence == 80

(***************************************************************************)
(* Words of the program text that operations look inside.                  *)
(***************************************************************************)
W_sql == <<"s","q","l">>
W_testcase == <<"t","e","s","t","c","a","s","e">>
W_mock == <<"m","o","c","k">>
W_content == <<"c","o","n","t","e","n","t">>
W_mysql == <<"m","y","s","q","l">>
W_postgresql == <<"p","o","s","t","g","r","e","s","q","l">>
W_sqlite == <<"s","q","l","i","t","e">>
W_mssql == <<"m","s","s","q","l">>
W_oracle == <<"o","r","a","c","l","e">>

(***************************************************************************)
(* Python re, as far as the patterns of dialect_manager.py use it.         *)
(* A pattern is a sequence of tokens:                                      *)
(*   [t |-> "b"]                          \b                               *)
(*   [t |-> "lit", w, ic]                 literal text, ic under IGNORECASE *)
(*   [t |-> "run", cls, neg, min, cap]    greedy run of a character class  *)
(*                                        ([^...] when neg), at least min  *)
(*                                        long, a capture group when cap   *)
(*   [t |-> "alt", alts]                  alternation of literals          *)
(*   [t |-> "ahead"]                      start of a (?=...) that runs to  *)
(*                                        the end of the pattern           *)
(* In every pattern of the source a greedy run is followed by a token that *)
(* cannot match a character of the run (or by \b after \d+, where both     *)
(* sides of a shorter run are word characters), and the alternatives of    *)
(* an alternation start with different characters: the first greedy        *)
(* attempt is the only one that can succeed, as computed here.             *)
(***************************************************************************)
Digits == {"0","1","2","3","4","5","6","7","8","9"}
Letters == {UpperCase[i] : i \in 1..26} \cup {LowerCase[i] : i \in 1..26}
WordChars == Letters \cup Digits \cup {"_"}

Tb == [t |-> "b"]
Lit(w, ic) == [t |-> "lit", w |-> w, ic |-> ic]
Run(cls, neg, min, cap) == [t |-> "run", cls |-> cls, neg |-> neg, min |-> min, cap |-> cap]
Alt(alts) == [t |-> "alt", alts |-> alts]
Ahead == [t |-> "ahead"]
Bol == [t |-> "bol"]
Eol == [t |-> "eol"]

\* \s+ , (\d+)
Ws1 == Run(Whitespace, FALSE, 1, FALSE)
Ws0 == Run(Whitespace, FALSE, 0, FALSE)
Num == Run(Digits, FALSE, 1, TRUE)

is_word_at(s, i) == i >= 1 /\ i <= Len(s) /\ s[i] \in WordChars

\* \b between s[i-1] and s[i]
at_boundary(s, i) == is_word_at(s, i - 1) # is_word_at(s, i)

RECURSIVE run_end(_, _, _, _)
run_end(s, i, cls, neg) ==
    IF i <= Len(s) /\ ((s[i] \in cls) # neg) THEN run_end(s, i + 1, cls, neg) ELSE i

fold(w, ic) == IF ic THEN lower(w) ELSE w

lit_at(s, i, w, ic) ==
    /\ i + Len(w) - 1 <= Len(s)
    /\ fold(SubSeq(s, i, i + Len(w) - 1), ic) = fold(w, ic)

NoMatch == [ok |-> FALSE, end |-> 0, caps |-> <<>>]

\* the match of pat[k..] at position i of s; end is the position after the match
RECURSIVE re_match(_, _, _, _, _, _)
re_match(s, i, pat, k, caps, stop) ==
    IF k > Len(pat)
    THEN [ok |-> TRUE, end |-> IF stop = 0 THEN i ELSE stop, caps |-> caps]
    ELSE LET tok == pat[k] IN
         CASE tok.t = "b" ->
                IF at_boundary(s, i) THEN re_match(s, i, pat, k + 1, caps, stop) ELSE NoMatch
           [] tok.t = "lit" ->
                IF lit_at(s, i, tok.w, tok.ic)
                THEN re_match(s, i + Len(tok.w), pat, k + 1, caps, stop)
                ELSE NoMatch
           [] tok.t = "run" ->
                LET j == run_end(s, i, tok.cls, tok.neg) IN
                IF j - i >= tok.min
                THEN re_match(s, j, pat, k + 1,
                              IF tok.cap THEN Append(caps, SubSeq(s, i, j - 1)) ELSE caps,
                              stop)
                ELSE NoMatch
           [] tok.t = "alt" ->
                IF \E a \in 1..Len(tok.alts) : lit_at(s, i, tok.alts[a], FALSE)
                THEN LET a == CHOOSE b \in 1..Len(tok.alts) :
                                  /\ lit_at(s, i, tok.alts[b], FALSE)
                                  /\ \A c \in 1..(b - 1) : ~lit_at(s, i, tok.alts[c], FALSE)
                     IN  re_match(s, i + Len(tok.alts[a]), pat, k + 1, caps, stop)
                ELSE NoMatch
           [] tok.t = "ahead" ->
                re_match(s, i, pat, k + 1, caps, i)
           [] tok.t = "bol" ->
                IF i = 1 \/ s[i - 1] = "\n"
                THEN re_match(s, i, pat, k + 1, caps, stop) ELSE NoMatch
           [] tok.t = "eol" ->
                IF i = Len(s) + 1 \/ s[i] = "\n"
                THEN re_match(s, i, pat, k + 1, caps, stop) ELSE NoMatch

\* a replacement template: literal pieces ([g |-> 0, w]) and group references ([g |-> n])
T(w) == [g |-> 0, w |-> w]
G(n) == [g |-> n, w |-> <<>>]

RECURSIVE expand(_, _)
expand(repl, caps) ==
    IF repl = <<>> THEN <<>>
    ELSE (IF Head(repl).g = 0 THEN Head(repl).w ELSE caps[Head(repl).g])
         \o expand(Tail(repl), caps)

\* the least of a non-empty set of positions
lowest(positions) == CHOOSE j \in positions : \A k \in positions : j <= k

\* the match at the leftmost of the positions starts, where pat matches
re_search_in(pat, s, starts) ==
    IF starts = {} THEN NoMatch ELSE re_match(s, lowest(starts), pat, 1, <<>>, 0)

\* re.search(pat, s): the leftmost match
re_search(pat, s) ==
    re_search_in(pat, s, {j \in 1..Len(s) : re_match(s, j, pat, 1, <<>>, 0).ok})

RECURSIVE re_sub_from(_, _, _, _, _)

\* one replacement of re.sub: the text from i up to the match m, which starts at j,
\* is kept, the match is replaced and the scan goes on after it
re_sub_step(pat, repl, s, i, left, j, m) ==
    SubSeq(s, i, j - 1) \o expand(repl, m.caps)
    \o re_sub_from(pat, repl, s, m.end, IF left > 0 THEN left - 1 ELSE left)

\* re.sub from position i on, starts being the positions from i on where pat has a
\* non-empty match
re_sub_next(pat, repl, s, i, left, starts) ==
    IF starts = {} THEN SubSeq(s, i, Len(s))
    ELSE re_sub_step(pat, repl, s, i, left, lowest(starts),
                     re_match(s, lowest(starts), pat, 1, <<>>, 0))

\* re.sub from position i on; left is the number of replacements still allowed (-1: all)
re_sub_from(pat, repl, s, i, left) ==
    IF i > Len(s) THEN <<>>
    ELSE IF left = 0 THEN SubSeq(s, i, Len(s))
    ELSE re_sub_next(pat, repl, s, i, left,
                     {j \in i..Len(s) : /\ re_match(s, j, pat, 1, <<>>, 0).ok
                                        /\ re_match(s, j, pat, 1, <<>>, 0).end > j})

\* re.sub(pat, repl, s, count=count); count 0 replaces every match
re_sub(pat, repl, s, count) == re_sub_from(pat, repl, s, 1, IF count = 0 THEN -1 ELSE count)

(***************************************************************************)
(* DialectManager (src/src/db/dialect_manager.py).                         *)
(***************************************************************************)
K_OFFSET == <<"O","F","F","S","E","T">>
K_ROWS == <<"R","O","W","S">>
K_FETCH == <<"F","E","T","C","H">>
K_NEXT == <<"N","E","X","T">>
K_ONLY == <<"O","N","L","Y">>
K_LIMIT == <<"L","I","M","I","T">>
K_TRUE == <<"T","R","U","E">>
K_FALSE == <<"F","A","L","S","E">>
K_SELECT == <<"S","E","L","E","C","T">>
K_TOP == <<"T","O","P">>
K_FROM == <<"F","R","O","M">>
K_WHERE == <<"W","H","E","R","E">>
K_ROWNUM == <<"R","O","W","N","U","M">>

\* the grave accent character, which a string of this language cannot hold
Backtick == "BACKTICK"

DatabaseType == {W_mysql, W_postgresql, W_sqlite, W_mssql, W_oracle}

\* the patterns "([^"]+)" and BACKTICK([^BACKTICK]+)BACKTICK
P_double_quoted == <<Lit(<<"\"">>, FALSE), Run({"\""}, TRUE, 1, TRUE), Lit(<<"\"">>, FALSE)>>
P_backticked == <<Lit(<<Backtick>>, FALSE), Run({Backtick}, TRUE, 1, TRUE), Lit(<<Backtick>>, FALSE)>>

\* r'\bOFFSET\s+(\d+)\s+ROWS\s+FETCH\s+NEXT\s+(\d+)\s+ROWS\s+ONLY\b', IGNORECASE
P_offset_fetch ==
    <<Tb, Lit(K_OFFSET, TRUE), Ws1, Num, Ws1, Lit(K_ROWS, TRUE), Ws1, Lit(K_FETCH, TRUE), Ws1,
      Lit(K_NEXT, TRUE), Ws1, Num, Ws1, Lit(K_ROWS, TRUE), Ws1, Lit(K_ONLY, TRUE), Tb>>

\* r'\bLIMIT\s+(\d+)\s+OFFSET\s+(\d+)\b', IGNORECASE
P_limit_offset == <<Tb, Lit(K_LIMIT, TRUE), Ws1, Num, Ws1, Lit(K_OFFSET, TRUE), Ws1, Num, Tb>>

\* r'\bLIMIT\s+(\d+)\b', IGNORECASE
P_limit == <<Tb, Lit(K_LIMIT, TRUE), Ws1, Num, Tb>>

\* r'\bTRUE\b', r'\bFALSE\b', r'\bSELECT\b', IGNORECASE
P_true == <<Tb, Lit(K_TRUE, TRUE), Tb>>
P_false == <<Tb, Lit(K_FALSE, TRUE), Tb>>
P_select == <<Tb, Lit(K_SELECT, TRUE), Tb>>

\* r'\b1\b(?=\s*(=|!=|<>)\s*\w)' and the same for 0
P_bool(d) ==
    <<Tb, Lit(<<d>>, FALSE), Tb, Ahead, Ws0, Alt(<< <<"=">>, <<"!","=">>, <<"<",">">> >>), Ws0,
      Run(WordChars, FALSE, 1, FALSE)>>

_mysql_adjustments(sql) ==
    LET s1 == re_sub(P_double_quoted, <<T(<<Backtick>>), G(1), T(<<Backtick>>)>>, sql, 0)
        s2 == re_sub(P_offset_fetch,
                     <<T(K_LIMIT \o <<" ">>), G(2), T(<<" ">> \o K_OFFSET \o <<" ">>), G(1)>>,
                     s1, 0)
        s3 == re_sub(P_true, <<T(<<"1">>)>>, s2, 0)
    IN  re_sub(P_false, <<T(<<"0">>)>>, s3, 0)

\* _postgresql_adjustments whose LIMIT pattern lacks flags=re.IGNORECASE
_postgresql_adjustments_case_sensitive(sql) ==
    re_sub(P_bool("0"), <<T(K_FALSE)>>,
      re_sub(P_bool("1"), <<T(K_TRUE)>>,
        re_sub(<<Tb, Lit(K_LIMIT, FALSE), Ws1, Num, Ws1, Lit(K_OFFSET, FALSE), Ws1, Num, Tb>>,
               <<T(K_OFFSET \o <<" ">>), G(2),
                 T(<<" ">> \o K_ROWS \o <<" ">> \o K_FETCH \o <<" ">> \o K_NEXT \o <<" ">>),
                 G(1), T(<<" ">> \o K_ROWS \o <<" ">> \o K_ONLY)>>,
               re_sub(P_backticked, <<T(<<"\"">>), G(1), T(<<"\"">>)>>, sql, 0), 0), 0), 0)

_postgresql_adjustments(sql) ==
    LET s1 == re_sub(P_backticked, <<T(<<"\"">>), G(1), T(<<"\"">>)>>, sql, 0)
        s2 == re_sub(P_limit_offset,
                     <<T(K_OFFSET \o <<" ">>), G(2),
                       T(<<" ">> \o K_ROWS \o <<" ">> \o K_FETCH \o <<" ">> \o K_NEXT \o <<" ">>),
                       G(1), T(<<" ">> \o K_ROWS \o <<" ">> \o K_ONLY)>>,
                     s1, 0)
        s3 == re_sub(P_bool("1"), <<T(K_TRUE)>>, s2, 0)
    IN  re_sub(P_bool("0"), <<T(K_FALSE)>>, s3, 0)

\* _sqlite_adjustments with the replacement the source has commented out
_sqlite_adjustments_brackets(sql) ==
    re_sub(P_double_quoted, <<T(<<"[">>), G(1), T(<<"]">>)>>, sql, 0)

_sqlite_adjustments(sql) == sql

\* r'\bLIMIT\s+\d+\b', IGNORECASE
P_limit_clause == <<Tb, Lit(K_LIMIT, TRUE), Ws1, Run(Digits, FALSE, 1, FALSE), Tb>>

\* the LIMIT part of _mssql_adjustments, for the text sql and the result
\* limit_match of the search for its first LIMIT n
mssql_limit(sql, limit_match) ==
    IF limit_match.ok
    THEN re_sub(P_select,
                <<T(K_SELECT \o <<" ">> \o K_TOP \o <<" ">> \o limit_match.caps[1])>>,
                re_sub(P_limit_clause, <<>>, sql, 0), 1)
    ELSE sql

mssql_search(sql) == mssql_limit(sql, re_search(P_limit, sql))

_mssql_adjustments(sql) ==
    mssql_search(re_sub(P_backticked, <<T(<<"[">>), G(1), T(<<"]">>)>>, sql, 0))

\* the LIMIT part of _oracle_adjustments done the SQL Server way
oracle_limit_top(sql, limit_match) == mssql_limit(sql, limit_match)

\* the LIMIT part of _oracle_adjustments
oracle_limit(sql, limit_match) ==
    IF limit_match.ok
    THEN K_SELECT \o <<" ","*"," ">> \o K_FROM \o <<" ","(">>
         \o re_sub(P_limit_clause, <<>>, sql, 0) \o <<")"," ">>
         \o K_WHERE \o <<" ">> \o K_ROWNUM \o <<" ","<","="," ">> \o limit_match.caps[1]
    ELSE sql

oracle_search(sql) == oracle_limit(sql, re_search(P_limit, sql))

_oracle_adjustments(sql) ==
    oracle_search(re_sub(P_backticked, <<T(<<"\"">>), G(1), T(<<"\"">>)>>, sql, 0))

\* the rule set self.dialect_rules[db_type] applied to sql
dialect_rules(db_type, sql) ==
    CASE db_type = W_mysql      -> _mysql_adjustments(sql)
      [] db_type = W_postgresql -> _postgresql_adjustments(sql)
      [] db_type = W_sqlite     -> _sqlite_adjustments(sql)
      [] db_type = W_mssql      -> _mssql_adjustments(sql)
      [] db_type = W_oracle     -> _oracle_adjustments(sql)

\* DatabaseType(database_type.lower()) raises ValueError for an unknown type,
\* which adjust_sql_for_dialect answers with the original sql
adjust_sql_for_dialect(sql, database_type) ==
    IF lower(database_type) \in DatabaseType
    THEN dialect_rules(lower(database_type), sql)
    ELSE sql

\* [db_type.value for db_type in DatabaseType]
get_supported_databases == <<W_mysql, W_postgresql, W_sqlite, W_mssql, W_oracle>>

\* validate_database_type that compares the name as it came
validate_database_type_case_sensitive(database_type) == database_type \in DatabaseType

validate_database_type(database_type) == lower(database_type) \in DatabaseType

\* the attributes an instance of DialectManager has
DialectManagerAttributes ==
    {"dialect_rules", "adjust_sql_for_dialect", "_mysql_adjustments",
     "_postgresql_adjustments", "_sqlite_adjustments", "_mssql_adjustments",
     "_oracle_adjustments", "get_supported_databases", "validate_database_type"}

(***************************************************************************)
(* PromptBuilder (src/src/llm/prompt_builder.py).  A list is a sequence,   *)
(* empty for None; a dict is a sequence of <<key, value>> pairs in the     *)
(* order of insertion.  The operations give Return(prompt) or the          *)
(* exception that leaves them.                                             *)
(***************************************************************************)
\* d[key]
getitem(d, key) ==
    IF map_has(d, key)
    THEN Return(map_get(d, key, <<>>))
    ELSE Raise(Exception("KeyError", <<"'", key, "'">>), <<>>)

\* text followed by the rest of the join, unless building the rest raised
followed_by(text, rest) == IF rest.raised THEN rest ELSE Return(text \o rest.value)

RECURSIVE schema_lines(_)
schema_lines(schemas) ==
    IF schemas = <<>> THEN <<>>
    ELSE <<"\n">> \o Head(schemas) \o schema_lines(Tail(schemas))

\* the block of example i, from example['natural_language'] and example['sql']
example_block(i, natural_language, sql) ==
    IF natural_language.raised THEN natural_language
    ELSE IF sql.raised THEN sql
    ELSE Return(<<"\nExample ", ToString(i), ":\n", "Natural Language: ">>
                \o natural_language.value \o <<"\n", "SQL: ">> \o sql.value)

RECURSIVE example_blocks(_, _)
example_blocks(examples, i) ==
    IF i > Len(examples) THEN Return(<<>>)
    ELSE IF example_block(i, getitem(examples[i], "natural_language"),
                          getitem(examples[i], "sql")).raised
    THEN example_block(i, getitem(examples[i], "natural_language"),
                       getitem(examples[i], "sql"))
    ELSE followed_by(example_block(i, getitem(examples[i], "natural_language"),
                                   getitem(examples[i], "sql")).value,
                     example_blocks(examples, i + 1))

\* the result r of a part of the join followed by text, unless the part raised
then_text(r, text) == IF r.raised THEN r ELSE Return(r.value \o text)

\* build_sql_generation_prompt without the tests of schemas and examples
build_sql_generation_prompt_all_headers(natural_language_input, database_type, schemas, examples) ==
    then_text(
        followed_by(
            <<"You are an AI assistant that translates human-readable requests into ">>
            \o upper(database_type) \o <<" SQL queries.">>
            \o <<"\nGiven the following database schema:">> \o schema_lines(schemas)
            \o <<"\nHere are some examples of natural language to SQL translations:">>,
            example_blocks(examples, 1)),
        <<"\nTranslate this request: ", "\"">> \o natural_language_input \o <<"\"">>
        \o <<"\nRespond ONLY with the SQL query. Do not include any explanations, markdown formatting, or additional text. The response should be a valid ">>
        \o upper(database_type) \o <<" SQL statement that can be executed directly.">>)

build_sql_generation_prompt(natural_language_input, database_type, schemas, examples) ==
    then_text(
        followed_by(
            <<"You are an AI assistant that translates human-readable requests into ">>
            \o upper(database_type) \o <<" SQL queries.">>
            \o (IF schemas # <<>>
                THEN <<"\nGiven the following database schema:">> \o schema_lines(schemas)
                ELSE <<>>)
            \o (IF examples # <<>>
                THEN <<"\nHere are some examples of natural language to SQL translations:">>
                ELSE <<>>),
            example_blocks(examples, 1)),
        <<"\nTranslate this request: ", "\"">> \o natural_language_input \o <<"\"">>
        \o <<"\nRespond ONLY with the SQL query. Do not include any explanations, markdown formatting, or additional text. The response should be a valid ">>
        \o upper(database_type) \o <<" SQL statement that can be executed directly.">>)

\* the lines of the columns of one table
RECURSIVE column_lines(_)
column_lines(columns) ==
    IF columns = <<>> THEN <<>>
    ELSE <<" ", " ", "-", " ">> \o Head(columns) \o column_lines(Tail(columns))

\* the lines of table_schemas.items()
RECURSIVE table_lines(_)
table_lines(table_schemas) ==
    IF table_schemas = <<>> THEN <<>>
    ELSE <<"\nTable: ">> \o Head(table_schemas)[1] \o <<"Columns:">>
         \o column_lines(Head(table_schemas)[2]) \o table_lines(Tail(table_schemas))

build_schema_aware_prompt(natural_language_input, database_type, table_schemas) ==
    Return(
        <<"You are an expert ">> \o upper(database_type)
        \o <<" SQL query generator. Generate accurate SQL queries based on natural language requests.">>
        \o (IF table_schemas # <<>>
            THEN <<"\nDatabase Schema:">> \o table_lines(table_schemas)
            ELSE <<>>)
        \o <<"\nUser Request: ">> \o natural_language_input
        \o <<"\nInstructions:\n1. Generate a valid SQL query that fulfills the user's request\n2. Use only the tables and columns defined in the schema above\n3. Follow proper SQL syntax and best practices\n4. Ensure compatibility with ">>
        \o upper(database_type)
        \o <<"\n5. Return ONLY the SQL query without any explanations or formatting">>)

\* the lines of the exchanges, from exchange.get('user', '') and exchange.get('assistant', '')
RECURSIVE exchange_lines(_)
exchange_lines(conversation_history) ==
    IF conversation_history = <<>> THEN <<>>
    ELSE <<"\nUser: ">> \o map_get(Head(conversation_history), "user", <<>>)
         \o <<"\n", "Assistant: ">> \o map_get(Head(conversation_history), "assistant", <<>>)
         \o exchange_lines(Tail(conversation_history))

build_conversational_prompt(natural_language_input, database_type, conversation_history, schemas) ==
    Return(
        <<"You are an AI assistant helping with ">> \o upper(database_type)
        \o <<" SQL query generation. You maintain context from previous interactions in this conversation.">>
        \o (IF schemas # <<>>
            THEN <<"\nDatabase Schema:">> \o schema_lines(schemas)
            ELSE <<>>)
        \o (IF conversation_history # <<>>
            THEN <<"\nConversation History:">> \o exchange_lines(conversation_history)
            ELSE <<>>)
        \o <<"\nCurrent Request: ">> \o natural_language_input
        \o <<"\nGenerate a SQL query that addresses the current request, taking into account the conversation context. Respond with ONLY the SQL query.">>)

(***************************************************************************)
(* Config (src/src/app_config.py).  A value of the configuration, or of    *)
(* the JSON file, is a str or a dict; a dict is a function from its keys.  *)
(* An environment gives each variable no value (<<>>) or one (<<value>>).  *)
(***************************************************************************)
EmptyDict == [k \in {} |-> k]
Str(s) == [isdict |-> FALSE, str |-> s, items |-> EmptyDict]
Dict(items) == [isdict |-> TRUE, str |-> "", items |-> items]

\* key in d, for a dict d
has_key(d, key) == key \in DOMAIN d.items

\* d[key] = v
setitem(d, key, v) ==
    Dict([k \in DOMAIN d.items \cup {key} |-> IF k = key THEN v ELSE d.items[k]])

_set_defaults ==
    Dict([llm |-> Dict([provider |-> Str("ollama"),
                        model |-> Str("llama3.2:1b"),
                        server_url |-> Str("http://localhost:11434"),
                        format |-> Str("json")]),
          grpc_server_address |-> Str("0.0.0.0:50051")])

\* d.update(u) in the place of the recursive update
_update_nested_dict_shallow(d, u) ==
    [k \in DOMAIN d \cup DOMAIN u |-> IF k \in DOMAIN u THEN u[k] ELSE d[k]]

RECURSIVE _update_nested_dict(_, _)
_update_nested_dict(d, u) ==
    [k \in DOMAIN d \cup DOMAIN u |->
        IF k \notin DOMAIN u THEN d[k]
        ELSE IF u[k].isdict /\ k \in DOMAIN d /\ d[k].isdict
        THEN Dict(_update_nested_dict(d[k].items, u[k].items))
        ELSE u[k]]

\* _load_from_file: a file that cannot be opened or parsed (json = <<>>), or whose
\* value has no items(), raises inside the try, and the error is logged
_load_from_file(cfg, file) ==
    IF file.json = <<>> THEN cfg
    ELSE IF ~file.json[1].isdict THEN cfg
    ELSE Dict(_update_nested_dict(cfg.items, file.json[1].items))

\* os.getenv(name) is true: the variable has a value and the value is not empty
getenv(env, name) == env[name] # <<>> /\ env[name][1] # ""

\* self.config["llm"][key] = value
set_llm(cfg, key, value) ==
    IF cfg.items.llm.isdict
    THEN Return(setitem(cfg, "llm", setitem(cfg.items.llm, key, Str(value))))
    ELSE Raise(Exception("TypeError", <<"'str' object does not support item assignment">>),
               Dict(EmptyDict))

\* one step of _load_from_env, after the steps that gave r
env_llm(r, env, name, key) ==
    IF r.raised \/ ~getenv(env, name) THEN r ELSE set_llm(r.value, key, env[name][1])

env_grpc(r, env) ==
    IF r.raised \/ ~getenv(env, "GRPC_SERVER_ADDRESS") THEN r
    ELSE Return(setitem(r.value, "grpc_server_address", Str(env.GRPC_SERVER_ADDRESS[1])))

_load_from_env(cfg, env) ==
    env_grpc(env_llm(env_llm(Return(cfg), env, "OLLAMA_TEST_MODEL", "model"),
                     env, "OLLAMA_SERVER_URL", "server_url"),
             env)

\* Config(config_file): file.given when config_file is given and the path exists
Config_init(file, env) ==
    _load_from_env(IF file.given THEN _load_from_file(_set_defaults, file) ELSE _set_defaults,
                   env)

\* Config.get(key, default)
Config_get(cfg, key, default) == IF has_key(cfg, key) THEN cfg.items[key] ELSE default

\* Config.get_llm_config()
get_llm_config(cfg) == Config_get(cfg, "llm", Dict(EmptyDict))

(***************************************************************************)
(* The construction of the service and of its connector                    *)
(* (src/src/grpc_server.py, src/src/llm/ollama.py).  The argument of a     *)
(* connector is a Config object or a dict.                                 *)
(***************************************************************************)
ConfigObject(cfg) == [is_config |-> TRUE, value |-> cfg]
DictObject(d) == [is_config |-> FALSE, value |-> d]

\* d.get(key, default) for a dict d of strs
dict_get(d, key, default) == IF has_key(d, key) THEN d.items[key].str ELSE default

\* config.get_llm_config() if hasattr(config, 'get_llm_config') else config.get('llm', {})
llm_config_of(arg) ==
    IF arg.is_config THEN get_llm_config(arg.value)
    ELSE Config_get(arg.value, "llm", Dict(EmptyDict))

\* OllamaConnector.__init__(config)
OllamaConnector_init(arg) ==
    [model |-> dict_get(llm_config_of(arg), "model", "llama3.2:1b"),
     server_url |-> dict_get(llm_config_of(arg), "server_url", "http://localhost:11434")]

\* the request of OllamaConnector.generate_content: requests.post(api_url, json=payload)
OllamaConnector_post(self, prompt) ==
    [api_url |-> <<self.server_url, "/api/generate">>,
     payload |-> [model |-> self.model, prompt |-> prompt, stream |-> FALSE]]

\* OpenAIConnector.__init__(config)
OpenAIConnector_init(arg) == [model |-> dict_get(llm_config_of(arg), "model", "gpt-3.5-turbo")]

\* the request of OpenAIConnector.generate_content: openai.ChatCompletion.create(...),
\* the temperature in hundredths
OpenAIConnector_create(self, prompt) ==
    [model |-> self.model,
     messages |-> <<[role |-> "user", content |-> prompt]>>,
     temperature |-> 10]

\* the connectors of a service constructed without a file and without variables of
\* the environment: _init_llm_connector gives them self.llm_config
ServiceOllama == OllamaConnector_init(DictObject(get_llm_config(_set_defaults)))
ServiceOpenAI == OpenAIConnector_init(DictObject(get_llm_config(_set_defaults)))

(***************************************************************************)
(* utils/helpers.py: clean_sql_query and validate_sql_syntax.              *)
(***************************************************************************)
Fence == <<Backtick, Backtick, Backtick>>

\* r'^```sql\s*' with IGNORECASE | MULTILINE, r'^```\s*' and r'```$' with MULTILINE,
\* r'\s+'
P_fence_sql == <<Bol, Lit(Fence \o W_sql, TRUE), Ws0>>
P_fence == <<Bol, Lit(Fence, FALSE), Ws0>>
P_fence_end == <<Lit(Fence, FALSE), Eol>>
P_spaces == <<Ws1>>

\* s.endswith(w), s.startswith(w), s.count(c)
endswith(s, w) == Len(s) >= Len(w) /\ SubSeq(s, Len(s) - Len(w) + 1, Len(s)) = w
startswith(s, w) == Len(s) >= Len(w) /\ SubSeq(s, 1, Len(w)) = w
count(s, c) == Cardinality({i \in 1..Len(s) : s[i] = c})

\* the end of clean_sql_query: the semicolon is added when there is none
with_semicolon(sql) ==
    IF sql # <<>> /\ ~endswith(rstrip(sql), <<";">>) THEN rstrip(sql) \o <<";">> ELSE sql

clean_sql_query(sql) ==
    IF sql = <<>> THEN <<>>
    ELSE with_semicolon(
           re_sub(P_spaces, <<T(<<" ">>)>>,
                  strip(re_sub(P_fence_end, <<>>,
                               re_sub(P_fence, <<>>,
                                      re_sub(P_fence_sql, <<>>, sql, 0), 0), 0)), 0))

sql_keywords ==
    {<<"S","E","L","E","C","T">>, <<"I","N","S","E","R","T">>, <<"U","P","D","A","T","E">>,
     <<"D","E","L","E","T","E">>, <<"C","R","E","A","T","E">>, <<"D","R","O","P">>,
     <<"A","L","T","E","R">>}

\* the rest of validate_sql_syntax, on cleaned_sql
valid_cleaned(cleaned_sql) ==
    IF ~\E keyword \in sql_keywords : startswith(cleaned_sql, keyword) THEN FALSE
    ELSE count(cleaned_sql, "(") = count(cleaned_sql, ")")

validate_sql_syntax(sql) ==
    IF sql = <<>> \/ strip(sql) = <<>> THEN FALSE
    ELSE valid_cleaned(strip(upper(clean_sql_query(sql))))

(***************************************************************************)
(* AIExtensionService (src/src/grpc_server.py).                            *)
(***************************************************************************)
Message(role, content) == [role |-> role, content |-> content]

\* the database_type of a request: request.parameters.get('database_type', 'mysql')
db_type_of(req) == map_get(req.parameters, "database_type", W_mysql)

\* request.context.get('schemas', '').split(',') if request.context.get('schemas') else None
schemas_of(req) ==
    IF map_get(req.context, "schemas", <<>>) # <<>>
    THEN split(map_get(req.context, "schemas", <<>>), ",")
    ELSE <<>>

\* ", ".join([f"{k}: {v}" for k, v in request.context.items()])
context_info(context) ==
    join(<<",", " ">>, [i \in 1..Len(context) |-> <<context[i][1], ":", " ">> \o context[i][2]])

\* the prompt of the testcase, mock and generic paths, with the context when there is one
with_context(prompt, req) ==
    IF req.context # <<>>
    THEN prompt \o <<"\nContext: ">> \o context_info(req.context)
    ELSE prompt

sql_messages(req) ==
    <<Message("system", <<"You are an AI assistant that translates natural language to SQL queries.">>),
      Message("user", build_sql_generation_prompt(req.prompt, db_type_of(req), schemas_of(req), <<>>).value)>>

testcase_messages(req) ==
    <<Message("system", <<"You are an AI assistant that generates comprehensive test cases.">>),
      Message("user", with_context(<<"Generate test cases for: ">> \o req.prompt, req))>>

mock_messages(req) ==
    <<Message("system", <<"You are an AI assistant that generates mock services and API responses.">>),
      Message("user", with_context(<<"Generate mock service for: ">> \o req.prompt, req))>>

generic_messages(req) ==
    <<Message("system", <<"You are an AI assistant that generates ">> \o req.contentType \o <<" content.">>),
      Message("user", with_context(<<"Generate ">> \o req.contentType \o <<" content for: ">>
                                   \o req.prompt, req))>>

\* the messages the handler of a path builds for the connector
messages_of(p, req) ==
    CASE p = "sql"      -> sql_messages(req)
      [] p = "testcase" -> testcase_messages(req)
      [] p = "mock"     -> mock_messages(req)
      [] p = "generic"  -> generic_messages(req)

\* 'content' in response: a key test on a dict, a substring test on a str
content_in(v) ==
    CASE v.kind = "dict" -> v.has_content
      [] v.kind = "str"  -> contains(W_content, v.str)
      [] v.kind = "none" -> FALSE

\* response['content']
getitem_content(v) ==
    CASE v.kind = "dict" /\ v.has_content -> Return(v.content)
      [] v.kind = "dict" /\ ~v.has_content ->
            Raise(Exception("KeyError", <<"'content'">>), <<>>)
      [] v.kind = "str" ->
            Raise(Exception("TypeError", <<"string indices must be integers">>), <<>>)
      [] v.kind = "none" ->
            Raise(Exception("TypeError", <<"'NoneType' object is not subscriptable">>), <<>>)

\* response.get('confidence') without the default: the unset float field reads 0
get_confidence_no_default(v) ==
    CASE v.kind = "dict" ->
            Return(IF v.has_confidence THEN v.confidence ELSE 0)
      [] v.kind = "str" ->
            Raise(Exception("AttributeError", <<"'str' object has no attribute 'get'">>), 0)
      [] v.kind = "none" ->
            Raise(Exception("AttributeError", <<"'NoneType' object has no attribute 'get'">>), 0)

\* response.get('confidence', 0.8)
get_confidence(v) ==
    CASE v.kind = "dict" ->
            Return(IF v.has_confidence THEN v.confidence ELSE DefaultConfidence)
      [] v.kind = "str" ->
            Raise(Exception("AttributeError", <<"'str' object has no attribute 'get'">>), 0)
      [] v.kind = "none" ->
            Raise(Exception("AttributeError", <<"'NoneType' object has no attribute 'get'">>), 0)

\* self.dialect_manager.<name>(sql, db_type)
dialect_manager_call(name, sql, db_type) ==
    IF name \in DialectManagerAttributes
    THEN Return(adjust_sql_for_dialect(sql, db_type))
    ELSE Raise(Exception("AttributeError",
                         <<"'DialectManager' object has no attribute '", name, "'">>), <<>>)

\* an except clause that reports the failure as a failed translation
internal_error_as_translation_failed(e) ==
    error_response(TRANSLATION_FAILED, <<"Internal error: ">> \o e.message)

\* the handlers' except Exception clause
internal_error(e) == error_response(INTERNAL_ERROR, <<"Internal error: ">> \o e.message)

\* the if not response or 'content' not in response test of the handlers
no_content(v) == ~truthy(v) \/ ~content_in(v)

\* the end of the try block of _generate_sql_content: the success response, built
\* from the result adapted of the call of the dialect manager and the result conf
\* of response.get('confidence', 0.8)
sql_success(req, adapted, conf) ==
    IF adapted.raised THEN Raise(adapted.exc, NoResponse)
    ELSE IF conf.raised THEN Raise(conf.exc, NoResponse)
    ELSE Return(success_response(
             adapted.value,
             <<"Generated ">> \o db_type_of(req) \o <<" SQL query from natural language input">>,
             conf.value,
             << <<"content_type", W_sql>>, <<"database_type", db_type_of(req)>> >>))

\* the try block of _generate_sql_content from sql_query = response['content'].strip()
\* on, item being the result of response['content']
sql_post_process(req, out, item) ==
    IF item.raised THEN Raise(item.exc, NoResponse)
    ELSE sql_success(req,
                     dialect_manager_call("adapt_sql_for_dialect", strip(item.value),
                                          db_type_of(req)),
                     get_confidence(out.value))

\* the try block of _generate_sql_content once generate_content has finished with out
sql_body(req, out) ==
    IF out.raised THEN Raise(out.exc, NoResponse)
    ELSE IF no_content(out.value)
    THEN Return(error_response(TRANSLATION_FAILED, <<"Failed to generate SQL from LLM">>))
    ELSE sql_post_process(req, out, getitem_content(out.value))

\* plain_success with an empty metadata map
plain_success_no_metadata(item, conf, explanation, content_type) ==
    IF item.raised THEN Raise(item.exc, NoResponse)
    ELSE IF conf.raised THEN Raise(conf.exc, NoResponse)
    ELSE Return(success_response(strip(item.value), explanation, conf.value, <<>>))

\* the success response of the testcase, mock and generic handlers, built from the
\* result item of response['content'] and the result conf of response.get('confidence', 0.8)
plain_success(item, conf, explanation, content_type) ==
    IF item.raised THEN Raise(item.exc, NoResponse)
    ELSE IF conf.raised THEN Raise(conf.exc, NoResponse)
    ELSE Return(success_response(strip(item.value), explanation, conf.value,
                                 << <<"content_type", content_type>> >>))

\* the try block of the testcase, mock and generic handlers after generate_content
plain_body(out, failure, explanation, content_type) ==
    IF out.raised THEN Raise(out.exc, NoResponse)
    ELSE IF no_content(out.value)
    THEN Return(error_response(TRANSLATION_FAILED, failure))
    ELSE plain_success(getitem_content(out.value), get_confidence(out.value),
                       explanation, content_type)

\* a try block without its except clause
try_except_missing(body) == body

\* try: ... except Exception as e: return an INTERNAL_ERROR response
try_except(body) == IF body.raised THEN Return(internal_error(body.exc)) ELSE body

_generate_sql_content(req, out) == try_except(sql_body(req, out))

\* _generate_testcase_content with the dialect adjustment of the sql path applied
_generate_testcase_content_adjusted(req, out) ==
    try_except(
        IF out.raised \/ no_content(out.value) \/ getitem_content(out.value).raised
        THEN plain_body(out, <<"Failed to generate test cases from LLM">>,
                        <<"Generated test cases based on the provided requirements">>,
                        W_testcase)
        ELSE Return(success_response(
                 adjust_sql_for_dialect(strip(getitem_content(out.value).value),
                                        db_type_of(req)),
                 <<"Generated test cases based on the provided requirements">>,
                 get_confidence(out.value).value,
                 << <<"content_type", W_testcase>> >>)))

_generate_testcase_content(req, out) ==
    try_except(plain_body(out, <<"Failed to generate test cases from LLM">>,
                          <<"Generated test cases based on the provided requirements">>,
                          W_testcase))

_generate_mock_content(req, out) ==
    try_except(plain_body(out, <<"Failed to generate mock service from LLM">>,
                          <<"Generated mock service based on the provided requirements">>,
                          W_mock))

_generate_generic_content(req, out) ==
    try_except(plain_body(out,
                          <<"Failed to generate ">> \o req.contentType \o <<" content from LLM">>,
                          <<"Generated ">> \o req.contentType
                              \o <<" content based on the provided requirements">>,
                          req.contentType))

\* validate without the test of the content type
validate_prompt_only(req) ==
    IF strip(req.prompt) = <<>>
    THEN <<error_response(INVALID_ARGUMENT, <<"Prompt cannot be empty">>)>>
    ELSE <<>>

\* validate with the prompt tested before it is stripped
validate_unstripped_prompt(req) ==
    IF req.prompt = <<>>
    THEN <<error_response(INVALID_ARGUMENT, <<"Prompt cannot be empty">>)>>
    ELSE IF strip(req.contentType) = <<>>
    THEN <<error_response(INVALID_ARGUMENT, <<"Content type cannot be empty">>)>>
    ELSE <<>>

\* the validation of GenerateContent: the error response, or nothing when the request passes
validate(req) ==
    IF strip(req.prompt) = <<>>
    THEN <<error_response(INVALID_ARGUMENT, <<"Prompt cannot be empty">>)>>
    ELSE IF strip(req.contentType) = <<>>
    THEN <<error_response(INVALID_ARGUMENT, <<"Content type cannot be empty">>)>>
    ELSE <<>>

\* dispatch comparing the content type as it came, without lower()
dispatch_case_sensitive(req) ==
    IF req.contentType = W_sql THEN "sql"
    ELSE IF req.contentType = W_testcase THEN "testcase"
    ELSE IF req.contentType = W_mock THEN "mock"
    ELSE "generic"

\* the branch GenerateContent takes for a request that passed validation
dispatch(req) ==
    IF lower(req.contentType) = W_sql THEN "sql"
    ELSE IF lower(req.contentType) = W_testcase THEN "testcase"
    ELSE IF lower(req.contentType) = W_mock THEN "mock"
    ELSE "generic"

\* the handler of a path, run to its end with the connector's outcome out
handler(p, req, out) ==
    CASE p = "sql"      -> _generate_sql_content(req, out)
      [] p = "testcase" -> _generate_testcase_content(req, out)
      [] p = "mock"     -> _generate_mock_content(req, out)
      [] p = "generic"  -> _generate_generic_content(req, out)

\* GenerateContent for a request that reached the connector, which finished with out
GenerateContent(req, out) == try_except(handler(dispatch(req), req, out))

(***************************************************************************)
(* The connectors.  Each operator gives what one invocation of             *)
(* generate_content does when the provider answers with reply: the number  *)
(* of provider calls it makes and the value it returns or the exception it *)
(* raises.                                                                 *)
(***************************************************************************)
\* generate_content posting a second time when the first post failed
OllamaConnector_generate_content_retry(prompt, reply) ==
    [posts |-> IF reply.kind = "json" THEN 1 ELSE 2,
     sent |-> IF reply.kind = "json"
              THEN <<OllamaConnector_post(ServiceOllama, prompt)>>
              ELSE <<OllamaConnector_post(ServiceOllama, prompt),
                     OllamaConnector_post(ServiceOllama, prompt)>>,
     result |->
        CASE reply.kind = "transport_error" ->
                Raise(Exception("ConnectionError", reply.text), PyNone)
          [] reply.kind = "http_error" ->
                Raise(Exception("HTTPError", reply.text), PyNone)
          [] reply.kind = "bad_json" ->
                Raise(Exception("JSONDecodeError", reply.text), PyNone)
          [] reply.kind = "json" ->
                Return(PyStr(strip(IF reply.has_text THEN reply.text ELSE <<>>)))]

\* OllamaConnector.generate_content (src/src/llm/ollama.py)
OllamaConnector_generate_content(prompt, reply) ==
    [posts |-> 1,
     sent |-> <<OllamaConnector_post(ServiceOllama, prompt)>>,
     result |->
        CASE reply.kind = "transport_error" ->
                Raise(Exception("ConnectionError", reply.text), PyNone)
          [] reply.kind = "http_error" ->
                Raise(Exception("HTTPError", reply.text), PyNone)
          [] reply.kind = "bad_json" ->
                Raise(Exception("JSONDecodeError", reply.text), PyNone)
          [] reply.kind = "json" ->
                Return(PyStr(strip(IF reply.has_text THEN reply.text ELSE <<>>)))]

\* OpenAIConnector.generate_content (src/src/llm/openai.py)
OpenAIConnector_generate_content(prompt, reply) ==
    [posts |-> 1,
     sent |-> <<OpenAIConnector_create(ServiceOpenAI, prompt)>>,
     result |->
        CASE reply.kind = "api_error" ->
                Raise(Exception("APIError", reply.text), PyNone)
          [] reply.kind = "completion" /\ reply.choices = 0 ->
                Raise(Exception("IndexError", <<"list index out of range">>), PyNone)
          [] reply.kind = "completion" /\ reply.choices > 0 /\ ~reply.has_text ->
                Raise(Exception("AttributeError",
                                <<"'NoneType' object has no attribute 'strip'">>), PyNone)
          [] reply.kind = "completion" /\ reply.choices > 0 /\ reply.has_text ->
                Return(PyStr(strip(reply.text)))]

\* a connector that follows the capability contract (a test double): it makes no
\* provider call and returns or raises what it was set up with
StubConnector_generate_content(prompt, reply) ==
    [posts |-> 0, sent |-> <<>>, result |-> reply]

\* AIExtensionService._init_llm_connector
_init_llm_connector(provider) ==
    CASE provider = "ollama" -> Return("ollama")
      [] provider = "openai" -> Return("openai")
      [] OTHER -> Raise(Exception("ValueError", <<"Unsupported LLM provider: ", provider>>), "")

(***************************************************************************)
(* The inputs of the model.                                                *)
(***************************************************************************)
RECURSIVE strings_upto(_, _)
\* all strings over chars of length at most n
strings_upto(chars, n) ==
    IF n = 0 THEN {<<>>}
    ELSE LET shorter == strings_upto(chars, n - 1)
         IN  shorter \cup {Append(t, c) : t \in shorter, c \in chars}

PromptChars == {" ", "a"}
Prompts == strings_upto(PromptChars, MaxPromptLen)

RECURSIVE blanks(_)
blanks(n) == IF n = 0 THEN <<>> ELSE <<" ">> \o blanks(n - 1)

ContentTypeWords ==
    {<<>>, W_sql, upper(W_sql), <<"T","e","s","t","C","a","s","e">>, W_mock, <<"j","s","o","n">>}

ContentTypes == {blanks(l) \o w \o blanks(r) : w \in ContentTypeWords, l \in 0..MaxPad, r \in 0..MaxPad}

ParameterMaps ==
    {<<>>, << <<"database_type", <<"O","r","a","c","l","e">> >> >>,
     << <<"database_type", <<"d","b","2">> >> >>}

ContextMaps == {<<>>, << <<"schemas", <<"a",",","b">> >> >>}

Requests ==
    [prompt : Prompts, contentType : ContentTypes, parameters : ParameterMaps,
     context : ContextMaps]

\* 'SELECT * FROM users;'
T_users == <<"S","E","L","E","C","T"," ","*"," ","F","R","O","M"," ","u","s","e","r","s",";">>
\* '\nSELECT 1 '
T_padded == <<"\n","S","E","L","E","C","T"," ","1"," ">>
\* 'SELECT content FROM t'
T_column == <<"S","E","L","E","C","T"," ","c","o","n","t","e","n","t"," ","F","R","O","M"," ","t">>
\* 'SELECT "a" FROM t WHERE b = TRUE'
T_quoted == <<"S","E","L","E","C","T"," ","\"","a","\""," ","F","R","O","M"," ","t"," ","W","H","E","R","E"," ","b"," ","="," ","T","R","U","E">>
\* 'SELECT 1 LIMIT 5 '
T_limited == <<"S","E","L","E","C","T"," ","1"," ","L","I","M","I","T"," ","5"," ">>

\* texts a provider or a connector can produce
Texts == {<<>>, <<" ">>, T_users, T_padded, T_column, T_quoted, T_limited}

\* messages of the failures of a provider
FailureTexts == {<<"Connection refused">>, <<"500 Server Error">>}

OllamaReplies ==
    [kind : {"transport_error", "http_error", "bad_json"}, has_text : {TRUE}, text : FailureTexts]
    \cup [kind : {"json"}, has_text : {TRUE}, text : Texts]
    \cup {[kind |-> "json", has_text |-> FALSE, text |-> <<>>]}

OpenAIReplies ==
    [kind : {"api_error"}, choices : {0}, has_text : {TRUE}, text : FailureTexts]
    \cup [kind : {"completion"}, choices : {1}, has_text : {TRUE}, text : Texts]
    \cup {[kind |-> "completion", choices |-> 1, has_text |-> FALSE, text |-> <<>>],
          [kind |-> "completion", choices |-> 0, has_text |-> FALSE, text |-> <<>>]}

Confidences == {0, 95}

StubValues ==
    {PyNone}
    \cup {PyDict(FALSE, <<>>, FALSE, 0, o) : o \in BOOLEAN}
    \cup {PyDict(TRUE, t, FALSE, 0, FALSE) : t \in Texts}
    \cup {PyDict(TRUE, t, TRUE, c, FALSE) : t \in Texts, c \in Confidences}
    \cup {PyDict(FALSE, <<>>, TRUE, c, FALSE) : c \in Confidences}

StubReplies ==
    {Return(v) : v \in StubValues}
    \cup {Raise(Exception("RuntimeError", m), PyNone) : m \in FailureTexts}

Providers == {"ollama", "openai"}

\* SQL clauses, from which the statements given to the dialect manager are made
Clause ==
    [select |-> <<"S","E","L","E","C","T"," ","*"," ","F","R","O","M"," ","t">>,
     limit5 |-> <<"L","I","M","I","T"," ","5">>,
     limit3 |-> <<"l","i","m","i","t"," ","3">>,
     limit_offset |-> <<"L","i","m","i","t"," ","1","0"," ","O","F","F","S","E","T"," ","2">>,
     offset_fetch |-> <<"O","R","D","E","R"," ","B","Y"," ","c"," ","o","f","f","s","e","t",
                        " ","2"," ","R","O","W","S"," ","F","E","T","C","H"," ","N","E","X",
                        "T"," ","1","0"," ","r","o","w","s"," ","O","N","L","Y">>,
     identifiers |-> <<"\"","a","\"",","," ",Backtick,"b",Backtick>>,
     booleans |-> <<"c"," ","="," ","T","r","u","e"," ","O","R"," ","d"," ","="," ",
                    "F","A","L","S","E">>,
     literal |-> <<"'","t","r","u","e","'">>,
     empty |-> <<"\"","\"">>,
     comparison |-> <<"1"," ","="," ","x">>]

\* a statement: its clauses in order, joined by single blanks
sql_of(parts) == join(<<" ">>, [i \in 1..Len(parts) |-> Clause[parts[i]]])

Statements == UNION {[1..n -> DOMAIN Clause] : n \in 1..MaxClauses}

\* the database_type values a caller passes
DatabaseTypeNames ==
    DatabaseType \cup {<<"M","y","S","Q","L">>, <<"S","Q","L","i","t","e">>, <<"d","b","2">>}

(***************************************************************************)
(* The state machine: one worker serving one request at a time.            *)
(***************************************************************************)
NoRequest == [prompt |-> <<>>, contentType |-> <<>>, parameters |-> <<>>, context |-> <<>>]
NoOutcome == Return(PyNone)

\* no arguments are with the prompt builder
NoPrompt ==
    [operation |-> "", natural_language_input |-> <<>>, database_type |-> <<>>,
     schemas |-> <<>>, examples |-> <<>>, table_schemas |-> <<>>,
     conversation_history |-> <<>>, prompt |-> <<>>, raised |-> <<>>]

\* no configuration file and no variable of the environment
NoFile == [given |-> FALSE, json |-> <<>>]
NoEnvironment ==
    [OLLAMA_TEST_MODEL |-> <<>>, OLLAMA_SERVER_URL |-> <<>>, GRPC_SERVER_ADDRESS |-> <<>>]
NoConfig ==
    [file |-> NoFile, env |-> NoEnvironment, built |-> <<>>, connector |-> <<>>, posts |-> <<>>]

\* a worker of the pool that serves no request; before: the workers that took their
\* requests before this one took its own and are still serving them
Workers == 1..MaxWorkers
IdleWorker ==
    [pc |-> "idle", request |-> NoRequest, messages |-> <<>>, path |-> "none",
     outcome |-> NoOutcome, response |-> NoResponse, propagated |-> FALSE, before |-> {}]
NoPool == [w \in Workers |-> IdleWorker]

\* no text is with the helpers
NoHelper == [pieces |-> <<>>, sql |-> <<>>, valid |-> <<>>]

\* no statement is with the dialect manager
NoDialect ==
    [parts |-> <<>>, sql |-> <<>>, database_type |-> <<>>, adjusted |-> <<>>, valid |-> <<>>]

\* AIExtensionService.__init__, or a service whose connector a test replaced by a stub
Init ==
    /\ connector \in {_init_llm_connector(p).value : p \in Providers} \cup {"stub"}
    /\ pc = "idle"
    /\ request = NoRequest
    /\ messages = <<>>
    /\ path = "none"
    /\ outcome = NoOutcome
    /\ calls = 0
    /\ providerCalls = 0
    /\ sent = <<>>
    /\ response = NoResponse
    /\ propagated = FALSE
    /\ dialect = NoDialect
    /\ built = NoPrompt
    /\ config = NoConfig
    /\ pool = NoPool
    /\ helper = NoHelper

\* GenerateContent from its entry to the call of generate_content, or to the
\* return of the validation error
Enter(req) ==
    /\ pc = "idle"
    /\ request' = req
    /\ IF validate(req) # <<>>
       THEN /\ response' = validate(req)[1]
            /\ pc' = "done"
            /\ UNCHANGED <<messages, path, calls>>
       ELSE /\ path' = dispatch(req)
            /\ messages' = messages_of(dispatch(req), req)
            /\ calls' = calls + 1
            /\ pc' = "connector"
            /\ UNCHANGED response
    /\ UNCHANGED <<connector, outcome, providerCalls, sent, propagated, library>>

\* GenerateContent returns: done is the response it returns or the exception that
\* leaves it, r what generate_content did
Deliver(r, done) ==
    /\ outcome' = r.result
    /\ providerCalls' = providerCalls + r.posts
    /\ sent' = sent \o r.sent
    /\ response' = IF done.raised THEN NoResponse ELSE done.value
    /\ propagated' = done.raised
    /\ pc' = "done"
    /\ UNCHANGED <<connector, request, messages, path, calls, library>>

\* the rest of GenerateContent once generate_content finished with result r
Finish(r) == Deliver(r, GenerateContent(request, r.result))

OllamaCall ==
    /\ pc = "connector" /\ connector = "ollama"
    /\ \E reply \in OllamaReplies : Finish(OllamaConnector_generate_content(messages, reply))

OpenAICall ==
    /\ pc = "connector" /\ connector = "openai"
    /\ \E reply \in OpenAIReplies : Finish(OpenAIConnector_generate_content(messages, reply))

StubCall ==
    /\ pc = "connector" /\ connector = "stub"
    /\ \E reply \in StubReplies : Finish(StubConnector_generate_content(messages, reply))

\* the response leaves for the transport and the worker takes the next request
Reply ==
    /\ pc = "done"
    /\ pc' = "idle"
    /\ request' = NoRequest
    /\ messages' = <<>>
    /\ path' = "none"
    /\ outcome' = NoOutcome
    /\ calls' = 0
    /\ providerCalls' = 0
    /\ sent' = <<>>
    /\ response' = NoResponse
    /\ propagated' = FALSE
    /\ UNCHANGED <<connector, library>>

Next ==
    \/ \E req \in Requests : Enter(req)
    \/ OllamaCall
    \/ OpenAICall
    \/ StubCall
    \/ Reply

Spec == Init /\ [][Next]_vars

(***************************************************************************)
(* The dialect manager on its own: a DialectManager() is given a statement *)
(* and a database type; adjust_sql_for_dialect is applied to the statement *)
(* and then to its own result, and validate_database_type to the type.     *)
(***************************************************************************)
\* no service is running
NoService ==
    /\ connector = "none"
    /\ pc = "idle"
    /\ request = NoRequest
    /\ messages = <<>>
    /\ path = "none"
    /\ outcome = NoOutcome
    /\ calls = 0
    /\ providerCalls = 0
    /\ sent = <<>>
    /\ response = NoResponse
    /\ propagated = FALSE

DialectInit ==
    /\ NoService
    /\ built = NoPrompt
    /\ config = NoConfig
    /\ pool = NoPool
    /\ helper = NoHelper
    /\ dialect \in {[parts |-> p, sql |-> sql_of(p), database_type |-> d,
                     adjusted |-> <<>>, valid |-> <<>>] :
                    p \in Statements, d \in DatabaseTypeNames}

\* sql = adjust_sql_for_dialect(sql, database_type), on the statement or on the
\* result of the pass before
Adjust ==
    /\ Len(dialect.adjusted) < MaxPasses
    /\ dialect' =
         [dialect EXCEPT !.adjusted =
            Append(@, adjust_sql_for_dialect(
                          IF @ = <<>> THEN dialect.sql ELSE @[Len(@)],
                          dialect.database_type))]
    /\ UNCHANGED <<service, built, config, pool, helper>>

\* validate_database_type(database_type)
Validate ==
    /\ dialect.valid = <<>>
    /\ dialect' = [dialect EXCEPT !.valid = <<validate_database_type(dialect.database_type)>>]
    /\ UNCHANGED <<service, built, config, pool, helper>>

DialectNext == Adjust \/ Validate

DialectSpec == DialectInit /\ [][DialectNext]_vars

(***************************************************************************)
(* The dialect manager on comparisons: the statement is a comparison       *)
(* "left op right" after a prefix and before a suffix, given with a        *)
(* PostgreSQL database type.                                               *)
(***************************************************************************)
LeftOperands == {<<"1">>, <<"0">>, <<"1","0">>, <<"x","1">>, <<"x">>}
Operators == {<<"=">>, <<"!","=">>, <<"<",">">>, <<"<">>, <<"=","=">>}
RightOperands == {<<"x">>, <<"_","y">>, <<"1">>, <<"0">>, <<"2">>, <<"'","a","'">>}
Spacings == {<<>>, <<" ">>}
Prefixes == {<<>>, <<"W","H","E","R","E"," ">>}
Suffixes == {<<>>, <<";">>}

Comparisons ==
    [prefix : Prefixes, left : LeftOperands, space : Spacings, op : Operators,
     right : RightOperands, suffix : Suffixes]

comparison_sql(c) == c.prefix \o c.left \o c.space \o c.op \o c.space \o c.right \o c.suffix

ComparisonInit ==
    /\ NoService
    /\ built = NoPrompt
    /\ config = NoConfig
    /\ pool = NoPool
    /\ helper = NoHelper
    /\ dialect \in {[parts |-> c, sql |-> comparison_sql(c), database_type |-> d,
                     adjusted |-> <<>>, valid |-> <<>>] :
                    c \in Comparisons,
                    d \in {W_postgresql, <<"P","o","s","t","g","r","e","S","Q","L">>}}

ComparisonSpec == ComparisonInit /\ [][DialectNext]_vars

(***************************************************************************)
(* The prompt builder on its own: a PromptBuilder() is given the arguments *)
(* of one of its three operations and builds the prompt.                   *)
(***************************************************************************)
\* all sequences of at most n elements of set
lists_upto(set, n) == UNION {[1..k -> set] : k \in 0..n}

\* the examples: dicts with both fields, with one of them, with neither
Examples ==
    {<< <<"natural_language", <<"q">> >>, <<"sql", <<"S">> >> >>,
     << <<"natural_language", <<"r">> >>, <<"sql", <<>> >> >>,
     << <<"natural_language", <<"q">> >> >>,
     << <<"sql", <<"S">> >> >>,
     <<>>}

\* the exchanges of a conversation: dicts with both fields, with one of them, with neither
Exchanges ==
    {<< <<"user", <<"u">> >>, <<"assistant", <<"A">> >> >>,
     << <<"user", <<"u">> >> >>,
     << <<"assistant", <<"A">> >> >>,
     <<>>}

\* the tables: a name and its columns
Tables == {<<<<"t">>, << <<"a">>, <<"b">> >> >>, <<<<"v">>, <<>> >>}

NaturalLanguageInputs == {<<"a">>, <<"a","\"">>}
PromptDatabaseTypes == {W_mysql, <<"P","o","s","t","g","r","e","S","Q","L">>}
SchemaTexts == {<<>>, <<"T">>, <<"U","\n">>}

PromptArguments(operation, schemas, examples, table_schemas, conversation_history) ==
    {[operation |-> operation, natural_language_input |-> nl, database_type |-> d,
      schemas |-> s, examples |-> e, table_schemas |-> t, conversation_history |-> h,
      prompt |-> <<>>, raised |-> <<>>] :
       nl \in NaturalLanguageInputs, d \in PromptDatabaseTypes,
       s \in schemas, e \in examples, t \in table_schemas, h \in conversation_history}

PromptInit ==
    /\ NoService
    /\ dialect = NoDialect
    /\ config = NoConfig
    /\ pool = NoPool
    /\ helper = NoHelper
    /\ built \in
         PromptArguments("build_sql_generation_prompt", lists_upto(SchemaTexts, MaxSchemas),
                         lists_upto(Examples, MaxExamples), {<<>>}, {<<>>})
         \cup PromptArguments("build_schema_aware_prompt", {<<>>}, {<<>>},
                              lists_upto(Tables, MaxTables), {<<>>})
         \cup PromptArguments("build_conversational_prompt", lists_upto(SchemaTexts, MaxSchemas),
                              {<<>>}, {<<>>}, lists_upto(Exchanges, MaxHistory))

\* the operation ends with result r: the prompt it returns or the exception it raises
Built(r) ==
    /\ built.prompt = <<>> /\ built.raised = <<>>
    /\ built' = [built EXCEPT !.prompt = IF r.raised THEN <<>> ELSE <<r.value>>,
                              !.raised = IF r.raised THEN <<r.exc>> ELSE <<>>]
    /\ UNCHANGED <<service, dialect, config, pool, helper>>

\* prompt = build_sql_generation_prompt(natural_language_input, database_type,
\*                                      schemas, examples)
BuildSqlPrompt ==
    /\ built.operation = "build_sql_generation_prompt"
    /\ Built(build_sql_generation_prompt(built.natural_language_input, built.database_type,
                                      built.schemas, built.examples))

\* prompt = build_schema_aware_prompt(natural_language_input, database_type, table_schemas)
BuildSchemaAwarePrompt ==
    /\ built.operation = "build_schema_aware_prompt"
    /\ Built(build_schema_aware_prompt(built.natural_language_input, built.database_type,
                                    built.table_schemas))

\* prompt = build_conversational_prompt(natural_language_input, database_type,
\*                                      conversation_history, schemas)
BuildConversationalPrompt ==
    /\ built.operation = "build_conversational_prompt"
    /\ Built(build_conversational_prompt(built.natural_language_input, built.database_type,
                                      built.conversation_history, built.schemas))

PromptNext == BuildSqlPrompt \/ BuildSchemaAwarePrompt \/ BuildConversationalPrompt

PromptSpec == PromptInit /\ [][PromptNext]_vars

(***************************************************************************)
(* The configuration on its own: Config(config_file) is constructed from a *)
(* file and an environment.                                                *)
(***************************************************************************)
\* the function f on the keys alone
restrict(f, keys) == [k \in keys |-> f[k]]

FileLlm ==
    [model |-> Str("file-model"), server_url |-> Str("http://file:1"), api_key |-> Str("key")]

\* the llm entry of a file: a dict with some of the keys, or a str
FileLlms == {Dict(restrict(FileLlm, keys)) : keys \in SUBSET DOMAIN FileLlm} \cup {Str("llm")}

\* the files: none, one that cannot be parsed, a str, an object with some of the entries
Files ==
    {NoFile, [given |-> TRUE, json |-> <<>>], [given |-> TRUE, json |-> <<Str("text")>>]}
    \cup {[given |-> TRUE,
           json |-> <<Dict(restrict([llm |-> l, grpc_server_address |-> Str("file:1")], keys))>>] :
            l \in FileLlms, keys \in SUBSET {"llm", "grpc_server_address"}}

\* a variable of the environment: not set, set to the empty string, set to value
env_values(value) == {<<>>, <<"">>, <<value>>}

Environments ==
    [OLLAMA_TEST_MODEL : env_values("env-model"),
     OLLAMA_SERVER_URL : env_values("http://env:2"),
     GRPC_SERVER_ADDRESS : env_values("env:2")]

ConfigInit ==
    /\ NoService
    /\ dialect = NoDialect
    /\ built = NoPrompt
    /\ pool = NoPool
    /\ helper = NoHelper
    /\ config \in [file : Files, env : Environments, built : {<<>>}, connector : {<<>>},
                   posts : {<<>>}]

\* Config(config_file)
Construct ==
    /\ config.built = <<>>
    /\ config' = [config EXCEPT !.built = <<Config_init(config.file, config.env)>>]
    /\ UNCHANGED <<service, dialect, built, pool, helper>>

\* AIExtensionService(): self.config = Config(), self.llm_config =
\* self.config.get_llm_config(), and _init_llm_connector, which gives the connector
\* self.llm_config; without a file the provider is ollama
ConstructService ==
    /\ config.built = <<>>
    /\ config.file = NoFile
    /\ config' =
         [config EXCEPT
            !.built = <<Config_init(NoFile, config.env)>>,
            !.connector =
               <<OllamaConnector_init(
                     DictObject(get_llm_config(Config_init(NoFile, config.env).value)))>>]
    /\ UNCHANGED <<service, dialect, built, pool, helper>>

\* the connector of the service makes a provider request
Post ==
    /\ config.connector # <<>>
    /\ Len(config.posts) < MaxPosts
    /\ \E prompt \in {"p", "q"} :
          config' = [config EXCEPT
                       !.posts = Append(@, OllamaConnector_post(config.connector[1], prompt))]
    /\ UNCHANGED <<service, dialect, built, pool, helper>>

ConfigNext == Construct \/ ConstructService \/ Post

ConfigSpec == ConfigInit /\ [][ConfigNext]_vars

(***************************************************************************)
(* The worker pool: serve() gives one AIExtensionService to a server with  *)
(* a ThreadPoolExecutor, whose workers run GenerateContent at the same     *)
(* time, each on a request of its own.  The service object (its connector, *)
(* dialect manager, prompt builder and configuration) is shared; the       *)
(* request, the messages and the response are locals of the call.          *)
(***************************************************************************)
PoolContentTypes == {<<>>, W_sql, W_testcase, <<"j","s","o","n">>}

PoolRequests ==
    [prompt : {<<"a">>}, contentType : PoolContentTypes, parameters : {<<>>},
     context : {<<>>, << <<"schemas", <<"a",",","b">> >> >>}]

\* what generate_content of the shared connector c can do with the messages
PoolResults(c, msgs) ==
    CASE c = "ollama" ->
            {OllamaConnector_generate_content(msgs, r).result :
               r \in {x \in OllamaReplies : x.text \in {T_users, <<"Connection refused">>}}}
      [] c = "openai" ->
            {OpenAIConnector_generate_content(msgs, r).result :
               r \in {x \in OpenAIReplies : x.text \in {T_users, <<"Connection refused">>}}}
      [] c = "stub" ->
            {StubConnector_generate_content(msgs, r).result :
               r \in {Return(PyDict(TRUE, T_users, FALSE, 0, FALSE)),
                      Return(PyDict(TRUE, T_limited, TRUE, 95, FALSE)),
                      Raise(Exception("RuntimeError", <<"Connection refused">>), PyNone)}}

PoolInit ==
    /\ connector \in {_init_llm_connector(p).value : p \in Providers} \cup {"stub"}
    /\ pc = "idle"
    /\ request = NoRequest
    /\ messages = <<>>
    /\ path = "none"
    /\ outcome = NoOutcome
    /\ calls = 0
    /\ providerCalls = 0
    /\ sent = <<>>
    /\ response = NoResponse
    /\ propagated = FALSE
    /\ dialect = NoDialect
    /\ built = NoPrompt
    /\ config = NoConfig
    /\ pool = NoPool
    /\ helper = NoHelper

\* the workers that are serving a request
Serving == {v \in Workers : pool[v].pc # "idle"}

\* the worker after GenerateContent, from its entry to the call of generate_content or
\* to the return of the validation error
entered(req, before) ==
    IF validate(req) # <<>>
    THEN [IdleWorker EXCEPT !.pc = "done", !.request = req, !.response = validate(req)[1],
                            !.before = before]
    ELSE [IdleWorker EXCEPT !.pc = "connector", !.request = req, !.path = dispatch(req),
                            !.messages = messages_of(dispatch(req), req),
                            !.before = before]

\* PoolEnter keeping the messages in a field of the service, which every worker reads
PoolEnter_shared_messages(w, req) ==
    /\ pool[w].pc = "idle"
    /\ pool' = [v \in Workers |->
                  IF v = w THEN entered(req, Serving)
                  ELSE [pool[v] EXCEPT !.messages = entered(req, Serving).messages]]
    /\ UNCHANGED <<service, dialect, built, config, helper>>

\* worker w takes a request and runs GenerateContent up to the call of generate_content
PoolEnter(w, req) ==
    /\ pool[w].pc = "idle"
    /\ pool' = [pool EXCEPT ![w] = entered(req, Serving)]
    /\ UNCHANGED <<service, dialect, built, config, helper>>

\* the worker after the rest of GenerateContent: out is what generate_content did,
\* done the response returned or the exception that leaves
delivered(worker, out, done) ==
    [worker EXCEPT !.pc = "done", !.outcome = out,
                   !.response = IF done.raised THEN NoResponse ELSE done.value,
                   !.propagated = done.raised]

\* generate_content returns to worker w, which runs GenerateContent to its end
PoolCall(w) ==
    /\ pool[w].pc = "connector"
    /\ \E out \in PoolResults(connector, pool[w].messages) :
          pool' = [pool EXCEPT
                     ![w] = delivered(@, out, GenerateContent(pool[w].request, out))]
    /\ UNCHANGED <<service, dialect, built, config, helper>>

\* the response of worker w leaves for the transport and the worker is free again
PoolReply(w) ==
    /\ pool[w].pc = "done"
    /\ pool' = [v \in Workers |->
                  IF v = w THEN IdleWorker
                  ELSE [pool[v] EXCEPT !.before = @ \ {w}]]
    /\ UNCHANGED <<service, dialect, built, config, helper>>

PoolNext ==
    \E w \in Workers :
        \/ \E req \in PoolRequests : PoolEnter(w, req)
        \/ PoolCall(w)
        \/ PoolReply(w)

PoolSpec == PoolInit /\ [][PoolNext]_vars

(***************************************************************************)
(* The helpers on their own: validate_sql_syntax is given a text made of   *)
(* pieces.                                                                 *)
(***************************************************************************)
Piece ==
    [select |-> <<"S","E","L","E","C","T">>, insert |-> <<"I","N","S","E","R","T">>,
     update |-> <<"U","P","D","A","T","E">>, delete |-> <<"D","E","L","E","T","E">>,
     create |-> <<"C","R","E","A","T","E">>, drop |-> <<"D","R","O","P">>,
     alter |-> <<"A","L","T","E","R">>, lower_select |-> <<"S","e","l","e","c","t">>,
     invalid |-> <<"I","N","V","A","L","I","D">>, open |-> <<"(">>, close |-> <<")">>,
     blank |-> <<" ">>, newline |-> <<"\n">>, fence |-> Fence,
     fence_sql |-> Fence \o <<"S","Q","L">>, semicolon |-> <<";">>, name |-> <<"x">>]

\* the text made of the pieces, one after the other
RECURSIVE text_of(_)
text_of(pieces) ==
    IF pieces = <<>> THEN <<>> ELSE Piece[Head(pieces)] \o text_of(Tail(pieces))

HelperInit ==
    /\ NoService
    /\ dialect = NoDialect
    /\ built = NoPrompt
    /\ config = NoConfig
    /\ pool = NoPool
    /\ helper \in {[pieces |-> p, sql |-> text_of(p), valid |-> <<>>] :
                   p \in UNION {[1..n -> DOMAIN Piece] : n \in 0..MaxPieces}}

\* valid = validate_sql_syntax(sql)
ValidateSql ==
    /\ helper.valid = <<>>
    /\ helper' = [helper EXCEPT !.valid = <<validate_sql_syntax(helper.sql)>>]
    /\ UNCHANGED <<service, dialect, built, config, pool>>

HelperNext == ValidateSql

HelperSpec == HelperInit /\ [][HelperNext]_vars

(***************************************************************************)
(* Properties of GenerateContent.                                          *)
(***************************************************************************)
IsSuccess == response.success # <<>> /\ response.error = <<>>
IsError(code) ==
    response.error # <<>> /\ response.success = <<>> /\ response.error[1].code = code

Blank(s) == \A i \in 1..Len(s) : s[i] \in Whitespace
Invalid(req) == Blank(req.prompt) \/ Blank(req.contentType)

\* s equals the lower-case word w up to letter case
SameUpToCase(s, w) ==
    Len(s) = Len(w) /\ \A i \in 1..Len(s) : s[i] \in {w[i], upper_char(w[i])}

\* s without the blanks around it
RECURSIVE Trimmed(_)
Trimmed(s) ==
    IF s # <<>> /\ Head(s) \in Whitespace THEN Trimmed(Tail(s))
    ELSE IF s # <<>> /\ s[Len(s)] \in Whitespace THEN Trimmed(SubSeq(s, 1, Len(s) - 1))
    ELSE s

Shipped == {"ollama", "openai"}

\* generate_content was invoked and returned a value
Returned == pc = "done" /\ calls = 1 /\ ~outcome.raised

\* generate_content returned a dict (a record), as the capability contract says
ReturnedDict == Returned /\ outcome.value.kind = "dict"

\* the text in the value generate_content returned
ReturnedText ==
    IF outcome.value.kind = "str" THEN outcome.value.str ELSE outcome.value.content

\* C1: a finished request is answered with Error(INVALID_ARGUMENT) exactly when its
\* prompt or its contentType is empty once trimmed, whatever its other fields are.
C1_InvalidArgument ==
    pc = "done" => (Invalid(request) <=> IsError(INVALID_ARGUMENT))

\* a request with a blank, non-empty prompt and contentType sql was rejected
C1_Witness ==
    /\ pc = "done"
    /\ request.prompt # <<>> /\ Blank(request.prompt)
    /\ request.contentType = W_sql
    /\ request.parameters # <<>>
    /\ IsError(INVALID_ARGUMENT)

\* C2: on the sql path, when the connector returns a record with non-empty content c,
\* the result is Success with content adapt(trim(c), database_type), not an Error.
C2_SqlSuccess ==
    (ReturnedDict /\ path = "sql" /\ outcome.value.has_content
        /\ ~Blank(outcome.value.content))
    => (/\ IsSuccess
        /\ response.success[1].content
             = adjust_sql_for_dialect(Trimmed(outcome.value.content), db_type_of(request)))

\* C3: what a shipped connector returns is a record with a content string, and a valid
\* request for which the provider gave non-empty text ends in Success.
C3_ShippedConnectorShape ==
    (Returned /\ connector \in Shipped /\ ReturnedText # <<>>)
    => (/\ outcome.value.kind = "dict" /\ outcome.value.has_content
        /\ IsSuccess)

\* C4: on every path, when generate_content raises, the result is
\* Error(INTERNAL_ERROR) carrying the message of the exception.
C4_ConnectorRaises ==
    (pc = "done" /\ outcome.raised)
    => (/\ IsError(INTERNAL_ERROR)
        /\ response.error[1].message = <<"Internal error: ">> \o outcome.exc.message)

\* generate_content raised on the generic path and the failure was reported
C4_Witness ==
    /\ pc = "done" /\ outcome.raised /\ path = "generic"
    /\ outcome.exc.message = <<"Connection refused">>
    /\ IsError(INTERNAL_ERROR)

\* C5: on every path, when the connector returns nothing, or a record whose content
\* is missing or empty, the result is Error(TRANSLATION_FAILED).
C5_EmptyContent ==
    (/\ Returned
     /\ \/ outcome.value.kind = "none"
        \/ outcome.value.kind = "dict"
             /\ (~outcome.value.has_content \/ outcome.value.content = <<>>))
    => IsError(TRANSLATION_FAILED)

\* C6: every call of GenerateContent returns a response with exactly one of success
\* and error populated, and no exception leaves GenerateContent.
C6_ExactlyOneVariant ==
    pc = "done" => (~propagated /\ Len(response.success) + Len(response.error) = 1)

\* a request on the sql path whose connector returned a usable record has been answered
C6_Witness ==
    /\ ReturnedDict /\ path = "sql" /\ outcome.value.has_content
    /\ outcome.value.content = T_users
    /\ ~propagated /\ Len(response.success) + Len(response.error) = 1

\* C7: while and after a request whose validation fails is served, generate_content
\* has not been invoked and no provider call has been made.
C7_NoConnectorOnInvalid ==
    (pc # "idle" /\ Invalid(request)) => (calls = 0 /\ providerCalls = 0 /\ messages = <<>>)

\* a request with a usable prompt and a blank contentType was rejected without a call
C7_Witness ==
    /\ pc = "done"
    /\ ~Blank(request.prompt)
    /\ request.contentType # <<>> /\ Blank(request.contentType)
    /\ IsError(INVALID_ARGUMENT)
    /\ calls = 0

\* C8: during one request generate_content is invoked at most once and makes at most
\* one provider call; a failed call is one reported failure, never retried.
C8_NoRetry ==
    /\ calls <= 1
    /\ providerCalls <= 1
    /\ (pc = "done" /\ outcome.raised) => (calls = 1 /\ response.error # <<>>)

\* the post of the Ollama connector failed and was reported after one call
C8_Witness ==
    /\ pc = "done" /\ connector = "ollama" /\ outcome.raised
    /\ outcome.exc.type = "HTTPError"
    /\ calls = 1 /\ providerCalls = 1
    /\ IsError(INTERNAL_ERROR)

\* the branch the content type ct selects when compared up to letter case
BranchOf(ct) ==
    IF SameUpToCase(ct, W_sql) THEN "sql"
    ELSE IF SameUpToCase(ct, W_testcase) THEN "testcase"
    ELSE IF SameUpToCase(ct, W_mock) THEN "mock"
    ELSE "generic"

\* C9 as claimed: the branch taken depends only on the trimmed, lower-cased
\* contentType, so sql, testcase and mock are recognised up to letter case and
\* surrounding whitespace.
C9_TrimmedDispatch ==
    (pc # "idle" /\ ~Invalid(request)) => path = BranchOf(Trimmed(request.contentType))

\* C9 as amended: the branch taken depends only on the lower-cased contentType as it
\* came: sql, testcase and mock are recognised up to letter case only, and a
\* contentType with whitespace around it takes the generic path.
C9_LowerCasedDispatch ==
    (pc # "idle" /\ ~Invalid(request)) => path = BranchOf(request.contentType)

\* a request whose contentType is sql in upper case after a blank went the generic way
C9_Witness ==
    /\ pc = "connector"
    /\ request.contentType = <<" ">> \o upper(W_sql)
    /\ path = "generic"

\* C10: the confidenceScore of every Success is the confidence the connector supplied,
\* or 0.8 when it supplied none; every Success of a shipped connector has 0.8.
C10_Confidence ==
    (pc = "done" /\ IsSuccess)
    => (/\ ~outcome.raised
        /\ response.success[1].confidenceScore
             = (IF outcome.value.kind = "dict" /\ outcome.value.has_confidence
                THEN outcome.value.confidence
                ELSE 80)
        /\ (connector \in Shipped => response.success[1].confidenceScore = 80))

\* a Success for a connector that supplied no confidence
C10_Witness ==
    /\ ReturnedDict /\ IsSuccess
    /\ ~outcome.value.has_confidence
    /\ response.success[1].confidenceScore = 80

\* the metadata of the Success in response
Metadata == response.success[1].metadata

\* the database_type a request asks for: the parameter when supplied, else mysql
WantedDatabaseType(req) ==
    IF \E i \in 1..Len(req.parameters) : req.parameters[i][1] = "database_type"
    THEN req.parameters[CHOOSE i \in 1..Len(req.parameters) :
                            req.parameters[i][1] = "database_type"][2]
    ELSE W_mysql

C12_NoDialectOffSqlPath ==
    (pc = "done" /\ IsSuccess /\ path # "sql")
    => (/\ ReturnedDict
        /\ response.success[1].content = Trimmed(outcome.value.content))

\* a Success of the testcase path whose content the dialect rules of the
\* database_type of the request would have rewritten
C12_Witness ==
    /\ pc = "done" /\ IsSuccess /\ path = "testcase"
    /\ WantedDatabaseType(request) = <<"O","r","a","c","l","e">>
    /\ outcome.value.content = T_limited
    /\ response.success[1].content = Trimmed(T_limited)
    /\ adjust_sql_for_dialect(Trimmed(T_limited), WantedDatabaseType(request))
         # Trimmed(T_limited)

(***************************************************************************)
(* Properties of the dialect manager.                                      *)
(***************************************************************************)
\* d names one of the five supported databases, in any letter case
Supported(d) == \E w \in {W_mysql, W_postgresql, W_sqlite, W_mssql, W_oracle} : SameUpToCase(d, w)

\* the dialect manager works for the database w (a lower-case name)
For(w) == SameUpToCase(dialect.database_type, w)

\* adjust_sql_for_dialect has returned at least once
Adjusted == dialect.adjusted # <<>>

\* C13: for a database_type that is none of the five supported identifiers in any
\* letter case, and for sqlite, adjust_sql_for_dialect returns the statement exactly
\* as it was given (every pass returns, and returns its input).
C13_Identity ==
    (~Supported(dialect.database_type) \/ For(W_sqlite))
    => \A k \in 1..Len(dialect.adjusted) : dialect.adjusted[k] = dialect.sql

\* a statement with quoted identifiers and a LIMIT came back unchanged for db2
C13_Witness ==
    /\ dialect.database_type = <<"d","b","2">>
    /\ dialect.parts = <<"select", "identifiers", "limit5">>
    /\ Len(dialect.adjusted) = 2
    /\ dialect.adjusted[1] = dialect.sql

\* C14 as claimed: for every supported dialect and every statement that does not
\* trigger the PostgreSQL boolean heuristic, adjusting the adjusted statement again
\* changes nothing.
C14_Idempotent ==
    (/\ Len(dialect.adjusted) = 2
     /\ Supported(dialect.database_type)
     /\ ~(For(W_postgresql) /\ \E i \in 1..Len(dialect.parts) : dialect.parts[i] = "comparison"))
    => dialect.adjusted[2] = dialect.adjusted[1]

\* the statement made of the clauses parts, each clause named in table replaced by
\* the text table gives for it
Rewritten(table, parts) ==
    join(<<" ">>, [i \in 1..Len(parts) |->
                      IF parts[i] \in DOMAIN table THEN table[parts[i]] ELSE Clause[parts[i]]])

\* the first result of adjust_sql_for_dialect
Once == dialect.adjusted[1]

\* what the mysql rules are to make of the clauses: BACKTICKaBACKTICK for "a",
\* LIMIT 10 OFFSET 2 for the OFFSET/FETCH clause, 1 and 0 for the keywords True and
\* FALSE; the literal 'true' is not named, so it is to stay
MySqlRewrite ==
    [identifiers |-> <<Backtick,"a",Backtick,","," ",Backtick,"b",Backtick>>,
     offset_fetch |-> <<"O","R","D","E","R"," ","B","Y"," ","c"," ","L","I","M","I","T"," ","1","0"," ","O","F","F","S","E","T"," ","2">>,
     booleans |-> <<"c"," ","="," ","1"," ","O","R"," ","d"," ","="," ","0">>]

\* C15 as claimed: for mysql every double-quoted identifier becomes a backtick-quoted
\* one, every OFFSET n ROWS FETCH NEXT m ROWS ONLY becomes LIMIT m OFFSET n, every
\* TRUE or FALSE keyword in any letter case becomes 1 or 0, and the text inside a
\* quoted literal is not treated as a keyword.
C15_MySql ==
    (Adjusted /\ For(W_mysql)) => Once = Rewritten(MySqlRewrite, dialect.parts)

\* what the postgresql rules are to make of the clauses
PostgreSqlRewrite ==
    [identifiers |-> <<"\"","a","\"",","," ","\"","b","\"">>,
     limit_offset |-> <<"O","F","F","S","E","T"," ","2"," ","R","O","W","S"," ","F","E","T","C","H"," ","N","E","X","T"," ","1","0"," ","R","O","W","S"," ","O","N","L","Y">>,
     comparison |-> <<"T","R","U","E"," ","="," ","x">>]

\* s has a backtick-quoted identifier
HasBacktickQuoted(s) ==
    \E i, j \in 1..Len(s) :
        /\ i + 1 < j /\ s[i] = Backtick /\ s[j] = Backtick
        /\ \A k \in (i + 1)..(j - 1) : s[k] # Backtick

LimitOf == [limit5 |-> <<"5">>, limit3 |-> <<"3">>, limit_offset |-> <<"1","0">>]
LimitRemoved ==
    [limit5 |-> <<>>, limit3 |-> <<>>, limit_offset |-> <<" ","O","F","F","S","E","T"," ","2">>]

\* where the clauses parts have a LIMIT n, and where a SELECT
Limits(parts) == {i \in 1..Len(parts) : parts[i] \in DOMAIN LimitOf}
Selects(parts) == {i \in 1..Len(parts) : parts[i] = "select"}

First(positions) == CHOOSE i \in positions : \A k \in positions : i <= k

\* the statement made of parts with its first LIMIT n removed, TOP n put after its
\* first SELECT and its backtick-quoted identifier in brackets
MsSqlExpected(parts) ==
    IF Limits(parts) = {} THEN Rewritten([identifiers |-> <<"\"","a","\"",","," ","[","b","]">>], parts)
    ELSE join(<<" ">>,
              [i \in 1..Len(parts) |->
                 IF i = First(Limits(parts)) THEN LimitRemoved[parts[i]]
                 ELSE IF Selects(parts) # {} /\ i = First(Selects(parts))
                 THEN <<"S","E","L","E","C","T"," ","T","O","P"," ">> \o LimitOf[parts[First(Limits(parts))]]
                      \o <<" ","*"," ","F","R","O","M"," ","t">>
                 ELSE IF parts[i] = "identifiers" THEN <<"\"","a","\"",","," ","[","b","]">>
                 ELSE Clause[parts[i]]])

\* C17 as claimed: for mssql every backtick-quoted identifier is put in brackets; in
\* a statement with a LIMIT n only the first LIMIT n is removed and TOP n, n being
\* that first limit, is put after the first SELECT only, later SELECT and LIMIT
\* clauses staying as they are; without a LIMIT n only the quoting changes.
C17_MsSql ==
    (Adjusted /\ For(W_mssql)) => Once = MsSqlExpected(dialect.parts)

\* s wrapped as SELECT * FROM (s) WHERE ROWNUM <= n
Wrapped(s, n) ==
    <<"S","E","L","E","C","T"," ","*"," ","F","R","O","M"," ","(">> \o s \o <<")"," ","W","H","E","R","E"," ","R","O","W","N","U","M"," ","<","="," ">> \o n

\* s is some text wrapped as SELECT * FROM (...) WHERE ROWNUM <= n, and has no
\* other ROWNUM
WrappedOnce(s, n) ==
    /\ Len(s) >= Len(Wrapped(<<>>, n))
    /\ SubSeq(s, 1, 15) = SubSeq(Wrapped(<<>>, n), 1, 15)
    /\ SubSeq(s, Len(s) - Len(Wrapped(<<>>, n)) + 16, Len(s))
         = SubSeq(Wrapped(<<>>, n), 16, Len(Wrapped(<<>>, n)))
    /\ Cardinality({i \in 1..Len(s) : i + 5 <= Len(s) /\ SubSeq(s, i, i + 5) = K_ROWNUM}) = 1

C19_Validate ==
    /\ Len(get_supported_databases) = 5
    /\ dialect.valid # <<>>
         => (dialect.valid[1]
               <=> \E i \in 1..5 : get_supported_databases[i] = lower(dialect.database_type))
    /\ Len(dialect.adjusted) = 1
         => Once = adjust_sql_for_dialect(dialect.sql, lower(dialect.database_type))
    /\ (Adjusted /\ dialect.valid = <<FALSE>>) => Once = dialect.sql

\* MySQL, in mixed case, was found valid and the mysql rules rewrote the statement
C19_Witness ==
    /\ dialect.database_type = <<"M","y","S","Q","L">>
    /\ dialect.valid = <<TRUE>>
    /\ dialect.parts = <<"select", "booleans">>
    /\ Adjusted
    /\ Once = <<"S","E","L","E","C","T"," ","*"," ","F","R","O","M"," ","t"," ","c"," ","="," ","1"," ","O","R"," ","d"," ","="," ","0">>

(***************************************************************************)
(* Properties of the prompt builder.                                       *)
(***************************************************************************)
\* the prompt that was built, and the places where it has the line a
Prompt == built.prompt[1]
At(a) == {i \in 1..Len(Prompt) : Prompt[i] = a}

SchemaHeader == "\nGiven the following database schema:"
ExamplesHeader == "\nHere are some examples of natural language to SQL translations:"
ExampleLine == "\nExample "
TranslateLine == "\nTranslate this request: "
RespondLine == "\nRespond ONLY with the SQL query. Do not include any explanations, markdown formatting, or additional text. The response should be a valid "

\* the length of the lines of the first k - 1 schemas
RECURSIVE Before(_, _)
Before(schemas, k) ==
    IF k = 1 THEN 0 ELSE Before(schemas, k - 1) + 1 + Len(schemas[k - 1])

\* C20: the prompt is, in this order, the role instruction with the upper-cased
\* dialect, the schema block, the numbered examples, the quoted request and the
\* instruction to respond only with SQL, which names the upper-cased dialect; the
\* schema header is there exactly when schemas is non-empty and is followed by every
\* schema verbatim on a line of its own, the examples header is there exactly when
\* examples is non-empty and is followed by Example 1, 2, ... in order; the request
\* stands verbatim between the quotes.
C20_PromptSections ==
    (built.operation = "build_sql_generation_prompt" /\ built.prompt # <<>>) =>
    LET db == upper(built.database_type)
        nl == built.natural_language_input
        t == CHOOSE i \in At(TranslateLine) : TRUE
    IN  /\ Prompt[1] = "You are an AI assistant that translates human-readable requests into "
        /\ SubSeq(Prompt, 2, 1 + Len(db)) = db
        /\ Prompt[2 + Len(db)] = " SQL queries."
        /\ At(SchemaHeader) = IF built.schemas # <<>> THEN {3 + Len(db)} ELSE {}
        /\ \A k \in 1..Len(built.schemas) :
              /\ Prompt[4 + Len(db) + Before(built.schemas, k)] = "\n"
              /\ SubSeq(Prompt, 5 + Len(db) + Before(built.schemas, k),
                        4 + Len(db) + Before(built.schemas, k) + Len(built.schemas[k]))
                   = built.schemas[k]
        /\ Cardinality(At(ExamplesHeader)) = IF built.examples # <<>> THEN 1 ELSE 0
        /\ built.schemas # <<>>
             => Prompt[4 + Len(db) + Before(built.schemas, Len(built.schemas) + 1)]
                  = IF built.examples # <<>> THEN ExamplesHeader ELSE TranslateLine
        /\ built.schemas = <<>>
             => Prompt[3 + Len(db)]
                  = IF built.examples # <<>> THEN ExamplesHeader ELSE TranslateLine
        /\ Cardinality(At(ExampleLine)) = Len(built.examples)
        /\ \A i \in At(ExampleLine) :
              /\ Prompt[i + 1] = ToString(Cardinality({j \in At(ExampleLine) : j <= i}))
              /\ \A h \in At(ExamplesHeader) : h < i
              /\ i < t
        /\ Cardinality(At(TranslateLine)) = 1
        /\ SubSeq(Prompt, t + 1, t + 2 + Len(nl)) = <<"\"">> \o nl \o <<"\"">>
        /\ At(RespondLine) = {t + 3 + Len(nl)}
        /\ SubSeq(Prompt, t + 4 + Len(nl), t + 3 + Len(nl) + Len(db)) = db
        /\ Len(Prompt) = t + 4 + Len(nl) + Len(db)
        /\ Prompt[Len(Prompt)] = " SQL statement that can be executed directly."

\* a prompt with two schemas, one of them empty, and two examples was built
C20_Witness ==
    /\ built.operation = "build_sql_generation_prompt"
    /\ built.prompt # <<>>
    /\ built.schemas = << <<>>, <<"U","\n">> >>
    /\ Len(built.examples) = 2
    /\ built.database_type # upper(built.database_type)
    /\ Cardinality(At(SchemaHeader)) = 1
    /\ Cardinality(At(ExampleLine)) = 2

\* an operation of the prompt builder ended
BuiltDone == built.prompt # <<>> \/ built.raised # <<>>

\* C21: each of the three builder operations returns a prompt and never fails, for
\* every input: with an example lacking natural_language or sql, or an exchange
\* lacking user or assistant, the operation still ends with a prompt, not an error.
C21_NeverFails ==
    BuiltDone => (built.raised = <<>> /\ built.prompt # <<>>)

(***************************************************************************)
(* Properties of the configuration.                                        *)
(***************************************************************************)
\* the configuration that was constructed
Constructed == config.built # <<>> /\ ~config.built[1].raised
Cfg == config.built[1].value

\* the value at llm.key, "" when there is none
llm_value(cfg, key) ==
    IF has_key(cfg, "llm") /\ cfg.items.llm.isdict /\ has_key(cfg.items.llm, key)
       /\ ~cfg.items.llm.items[key].isdict
    THEN cfg.items.llm.items[key].str ELSE ""

\* the value at the top-level key, "" when there is none
top_value(cfg, key) ==
    IF has_key(cfg, key) /\ ~cfg.items[key].isdict THEN cfg.items[key].str ELSE ""

\* the JSON object of the file, the empty object when the file gives none
FileObject ==
    IF config.file.given /\ config.file.json # <<>> /\ config.file.json[1].isdict
    THEN config.file.json[1] ELSE Dict(EmptyDict)

\* the file gives llm.key, or the top-level key
FileGivesLlm(key) ==
    has_key(FileObject, "llm") /\ FileObject.items.llm.isdict
    /\ has_key(FileObject.items.llm, key)
FileGives(key) == has_key(FileObject, key)

\* the llm entry of the file is not an object
FileLlmNotObject == has_key(FileObject, "llm") /\ ~FileObject.items.llm.isdict

\* the value the precedence gives: the variable's when it counts as set, else the
\* file's when the file gives it, else the default
Precedence(set, var, gives, of_file, default) ==
    IF set THEN var[1] ELSE IF gives THEN of_file ELSE default

\* the three settings follow the precedence, and llm.format is the default's
Overlaid(set_model, set_url, set_address) ==
    /\ llm_value(Cfg, "model")
         = Precedence(set_model, config.env.OLLAMA_TEST_MODEL, FileGivesLlm("model"),
                      llm_value(FileObject, "model"), "llama3.2:1b")
    /\ llm_value(Cfg, "server_url")
         = Precedence(set_url, config.env.OLLAMA_SERVER_URL, FileGivesLlm("server_url"),
                      llm_value(FileObject, "server_url"), "http://localhost:11434")
    /\ top_value(Cfg, "grpc_server_address")
         = Precedence(set_address, config.env.GRPC_SERVER_ADDRESS,
                      FileGives("grpc_server_address"),
                      top_value(FileObject, "grpc_server_address"), "0.0.0.0:50051")
    /\ llm_value(Cfg, "format") = "json"
    /\ llm_value(Cfg, "provider") = "ollama"

\* C22 as stated: a Config is constructed, and each of llm.model, llm.server_url and
\* grpc_server_address is the environment variable's value when the variable is set,
\* otherwise the file's when the file gives it, otherwise the default; the nested
\* keys the file does not mention keep their defaults.
C22_PrecedenceWhenSet ==
    config.built # <<>> =>
        /\ Constructed
        /\ Overlaid(config.env.OLLAMA_TEST_MODEL # <<>>, config.env.OLLAMA_SERVER_URL # <<>>,
                    config.env.GRPC_SERVER_ADDRESS # <<>>)

\* C22: a variable counts as set when its value is not empty.  When the llm entry of
\* the file, if any, is an object, a Config is constructed in which each of llm.model,
\* llm.server_url and grpc_server_address is the variable's value when it is set and
\* not empty, otherwise the file's when the file gives it, otherwise the default, and
\* llm.format and llm.provider, which the file does not mention, keep their defaults.
C22_Precedence ==
    (config.built # <<>> /\ ~FileLlmNotObject) =>
        /\ Constructed
        /\ Overlaid(getenv(config.env, "OLLAMA_TEST_MODEL"),
                    getenv(config.env, "OLLAMA_SERVER_URL"),
                    getenv(config.env, "GRPC_SERVER_ADDRESS"))

\* the file gives llm.model alone, the environment the server URL alone: the model is
\* the file's, the URL the variable's, the address and the format are the defaults
C22_Witness ==
    /\ Constructed
    /\ config.file.given /\ DOMAIN FileObject.items = {"llm"}
    /\ DOMAIN FileObject.items.llm.items = {"model"}
    /\ config.env = [NoEnvironment EXCEPT !.OLLAMA_SERVER_URL = <<"http://env:2">>]
    /\ llm_value(Cfg, "model") = "file-model"
    /\ llm_value(Cfg, "server_url") = "http://env:2"
    /\ top_value(Cfg, "grpc_server_address") = "0.0.0.0:50051"
    /\ llm_value(Cfg, "format") = "json"

\* C23: the connector of a constructed service has the configured llm.model and
\* llm.server_url, and every provider request it makes carries that model and goes to
\* that endpoint: the overriding ones when OLLAMA_TEST_MODEL or OLLAMA_SERVER_URL is
\* set at the construction of the service.
C23_ConfiguredConnector ==
    config.connector # <<>> =>
        /\ config.connector[1].model = llm_value(Cfg, "model")
        /\ config.connector[1].server_url = llm_value(Cfg, "server_url")
        /\ \A i \in 1..Len(config.posts) :
              /\ config.posts[i].payload.model
                   = IF getenv(config.env, "OLLAMA_TEST_MODEL")
                     THEN config.env.OLLAMA_TEST_MODEL[1] ELSE "llama3.2:1b"
              /\ config.posts[i].api_url[1]
                   = IF getenv(config.env, "OLLAMA_SERVER_URL")
                     THEN config.env.OLLAMA_SERVER_URL[1] ELSE "http://localhost:11434"

(***************************************************************************)
(* Properties of the worker pool.                                          *)
(***************************************************************************)
\* what a worker holds of its call, without the order of the arrivals
Locals(worker) == [worker EXCEPT !.before = {}]

\* the response of a request served alone, when generate_content did out
Alone(req, out) ==
    IF validate(req) # <<>> THEN Return(validate(req)[1]) ELSE GenerateContent(req, out)

\* worker w is where its request alone would have brought it
ServedAlone(w) ==
    /\ pool[w].pc = "connector" =>
          /\ validate(pool[w].request) = <<>>
          /\ pool[w].path = dispatch(pool[w].request)
          /\ pool[w].messages = messages_of(dispatch(pool[w].request), pool[w].request)
    /\ pool[w].pc = "done" =>
          /\ pool[w].propagated = Alone(pool[w].request, pool[w].outcome).raised
          /\ pool[w].response
               = IF Alone(pool[w].request, pool[w].outcome).raised THEN NoResponse
                 ELSE Alone(pool[w].request, pool[w].outcome).value

\* C24: in every interleaving of the workers, each request is served as if it were
\* alone with the same connector responses, and a step of a worker changes the locals
\* of that worker only: the connector and the rest of the service object stay as
\* constructed.  (That requests complete in any order is the witness.)
C24_Independent ==
    /\ [](\A w \in Workers : ServedAlone(w))
    /\ [][/\ connector' = connector
          /\ \E w \in Workers :
                \A v \in Workers \ {w} : Locals(pool'[v]) = Locals(pool[v])]_vars

\* a worker has finished a request it took while another worker was serving one, and
\* that other worker is still waiting for its connector; the two took different paths
C24_Witness ==
    \E w \in Workers : \E v \in pool[w].before :
        /\ pool[w].pc = "done" /\ pool[w].response.success # <<>>
        /\ pool[v].pc = "connector"
        /\ pool[v].path = "sql" /\ pool[w].path = "testcase"

(***************************************************************************)
(* Properties of the PostgreSQL rule for boolean literals.                 *)
(***************************************************************************)
\* the comparison that was given
Given == dialect.parts

\* the left operand is a bare 1 or 0, the operator a comparison operator, the right
\* operand an identifier: it starts with a letter or an underscore
BareLiteral == Given.left \in {<<"1">>, <<"0">>}
ComparisonOperator == Given.op \in {<<"=">>, <<"!","=">>, <<"<",">">>}
RightIdentifier == Given.right[1] \in (WordChars \ Digits)

\* the comparison with TRUE for a left operand 1 and FALSE for a left operand 0
WithBoolean ==
    Given.prefix \o (IF Given.left = <<"1">> THEN K_TRUE ELSE K_FALSE) \o Given.space
    \o Given.op \o Given.space \o Given.right \o Given.suffix

\* C25: for postgresql, the left operand is rewritten to TRUE or FALSE if and only if
\* it is a bare 1 or 0 followed, up to whitespace, by =, != or <> and then an
\* identifier; a 1 or 0 that is the right operand, or a left operand followed by an
\* operator and a number, is left unchanged, as is the rest of the statement.
C25_BooleanLiterals ==
    Adjusted =>
        Once = IF BareLiteral /\ ComparisonOperator /\ RightIdentifier
               THEN WithBoolean ELSE dialect.sql

(***************************************************************************)
(* Properties of the messages.                                             *)
(***************************************************************************)
\* the role description of a path, which on the generic path names the content type
RoleDescription(p, req) ==
    CASE p = "sql" -> <<"You are an AI assistant that translates natural language to SQL queries.">>
      [] p = "testcase" -> <<"You are an AI assistant that generates comprehensive test cases.">>
      [] p = "mock" -> <<"You are an AI assistant that generates mock services and API responses.">>
      [] p = "generic" ->
            <<"You are an AI assistant that generates ">> \o req.contentType \o <<" content.">>

\* the messages in a request to the provider: the prompt of the payload of the local
\* provider, the messages of the call of the hosted one
ProviderMessages(r) == IF "payload" \in DOMAIN r THEN r.payload.prompt ELSE r.messages

\* m is a system message and a user message, in this order
SystemThenUser(m) == Len(m) = 2 /\ m[1].role = "system" /\ m[2].role = "user"

\* C26: on every path the connector receives two messages, a system message with the
\* role description of the path and then a user message with the built prompt, and
\* every request of a shipped connector to the provider has these messages, in this
\* order and with these roles.
C26_MessagesInOrder ==
    calls = 1 =>
        /\ SystemThenUser(messages)
        /\ messages[1].content = RoleDescription(path, request)
        /\ messages[2].content = messages_of(path, request)[2].content
        /\ \A i \in 1..Len(sent) :
              /\ SystemThenUser(ProviderMessages(sent[i]))
              /\ ProviderMessages(sent[i]) = messages

(***************************************************************************)
(* Properties of the error codes.                                          *)
(***************************************************************************)
\* the request is a sql request that names a database type the dialect manager does
\* not know, and the connector returned a record with non-empty content
UnrecognizedDatabase ==
    /\ ReturnedDict /\ path = "sql"
    /\ outcome.value.has_content /\ ~Blank(outcome.value.content)
    /\ ~validate_database_type(db_type_of(request))

\* C27: the code of every Error returned is INVALID_ARGUMENT, TRANSLATION_FAILED or
\* INTERNAL_ERROR, never UNSUPPORTED_DATABASE; and a sql request that names an
\* unrecognized database_type ends in Success with the generated SQL, trimmed and not
\* rewritten.
C27_ErrorCodes ==
    /\ (pc = "done" /\ response.error # <<>>)
          => response.error[1].code \in {INVALID_ARGUMENT, TRANSLATION_FAILED, INTERNAL_ERROR}
    /\ UnrecognizedDatabase
          => (/\ IsSuccess
              /\ response.success[1].content = Trimmed(outcome.value.content))

(***************************************************************************)
(* Properties of validate_sql_syntax.                                      *)
(***************************************************************************)
\* the cleaned text of the input: cleaned_sql in validate_sql_syntax
CleanedSql == strip(upper(clean_sql_query(helper.sql)))

BeginsWithKeyword == \E keyword \in sql_keywords : startswith(CleanedSql, keyword)

\* the parentheses among the first n characters of s that are open, -1 when one
\* of them closes a parenthesis that was not opened
RECURSIVE open_after(_, _)
open_after(s, n) ==
    IF n = 0 THEN 0
    ELSE IF open_after(s, n - 1) < 0 THEN -1
    ELSE IF s[n] = "(" THEN open_after(s, n - 1) + 1
    ELSE IF s[n] = ")" THEN open_after(s, n - 1) - 1
    ELSE open_after(s, n - 1)

\* every parenthesis of s has its match
ParenthesesMatched(s) == open_after(s, Len(s)) = 0

\* C28: validate_sql_syntax returns False for an empty or blank input, for an input
\* whose cleaned text does not begin with SELECT, INSERT, UPDATE, DELETE, CREATE, DROP
\* or ALTER, and for an input whose parentheses are unmatched; it returns True for an
\* input that begins with such a keyword and whose parentheses are matched.
C28_ValidateSqlSyntax ==
    helper.valid # <<>> =>
        (helper.valid[1]
           <=> (/\ ~Blank(helper.sql)
                /\ BeginsWithKeyword
                /\ ParenthesesMatched(helper.sql)))

====
